---- MODULE Spec2Model ----
(***************************************************************************)
(* Automation engine of the CRM backend:                                   *)
(*   backend/app/services/automation_executor.py  (condition evaluator,    *)
(*       rule executor, action dispatchers, trigger dispatcher)            *)
(*   backend/app/api/automations.py               (rule CRUD, validation)  *)
(*                                                                         *)
(* Python values are modelled as strings, with None a distinguished one.   *)
(* A dict is a function whose DOMAIN is the set of keys it holds, so a     *)
(* missing key, a key holding None and an empty dict stay distinguishable, *)
(* as they are for dict.get and for Python truthiness.                     *)
(***************************************************************************)
EXTENDS Integers, Sequences, FiniteSets, TLC

VARIABLES
    automation_rules,   \* table automation_rules: rows in insertion order
    automation_logs,    \* table automation_logs: rows in insertion order
    records,            \* table records: id -> [entity_id, data]
    next_id,            \* number of automation rules inserted so far
    response,           \* what the last request or call answered
    cond_in,            \* arguments of one check_trigger_conditions call
    cond_out,           \* its outcome (pending / returned value / raised)
    crm_records,        \* table crm_records: id -> [workspace_id, entity_id, data, is_archived]
    workspaces,         \* table workspaces: id -> [slug, owner_id, is_active]
    workspace_members,  \* table workspace_members: rows [workspace_id, user_id, role]
    in_flight           \* per server process: the trigger event it holds, if any

vars == <<automation_rules, automation_logs, records, next_id, response, cond_in, cond_out,
          crm_records, workspaces, workspace_members, in_flight>>

store == <<automation_rules, automation_logs, records, next_id, response,
           crm_records, workspaces, workspace_members, in_flight>>

----------------------------------------------------------------------------
(* Python values *)

None == "None"

\* bool(v) for v a str or None
Truthy(v) == v # None /\ v # ""

\* bool(d) for d a dict: the empty dict is falsy
DictTruthy(d) == DOMAIN d # {}

\* d.get(k)
Get(d, k) == IF k \in DOMAIN d THEN d[k] ELSE None

\* d.get(k, default)
GetD(d, k, default) == IF k \in DOMAIN d THEN d[k] ELSE default

EmptyDict == [k \in {} |-> None]

\* {**d, k: v}
DictSet(d, k, v) == [x \in (DOMAIN d) \cup {k} |-> IF x = k THEN v ELSE d[x]]

\* Optional[dict]: None, or a dict
NoneDict == [is_none |-> TRUE]
SomeDict(d) == [is_none |-> FALSE, dict |-> d]

\* bool(o) for o an Optional[dict]
OptTruthy(o) == (~o.is_none) /\ DictTruthy(o.dict)

----------------------------------------------------------------------------
(* Condition evaluator: check_trigger_conditions, a pure function.         *)
(* Its outcome is a returned bool, or a raise (AttributeError on           *)
(* trigger_config.get when the stored trigger_config is null, TypeError on *)
(* old_data.get when the stored field_name is a list).                     *)

Pending == [pending |-> TRUE]
Returned(b) == [raised |-> FALSE, value |-> b]
Raised == [raised |-> TRUE]

\* status_changed branch without the from_status filter
status_changed_branch_NoFrom(trigger_config, record_data, old_data) ==
    LET to_status == Get(trigger_config, "to_status")
        current_status == Get(record_data, "status")
        old_status == IF OptTruthy(old_data) THEN Get(old_data.dict, "status") ELSE None
    IN  IF Truthy(to_status) /\ current_status # to_status THEN FALSE
        ELSE IF old_status = current_status THEN FALSE
        ELSE TRUE

\* trigger_type == "status_changed" branch
status_changed_branch(trigger_config, record_data, old_data) ==
    LET to_status == Get(trigger_config, "to_status")
        from_status == Get(trigger_config, "from_status")
        current_status == Get(record_data, "status")
        old_status == IF OptTruthy(old_data) THEN Get(old_data.dict, "status") ELSE None
    IN  IF Truthy(to_status) /\ current_status # to_status THEN FALSE
        ELSE IF Truthy(from_status) /\ old_status # from_status THEN FALSE
        ELSE IF old_status = current_status THEN FALSE
        ELSE TRUE

\* field_updated branch that, without a field_name, asks for some changed field
field_updated_branch_AnyChange(trigger_config, record_data, old_data) ==
    LET field_name == Get(trigger_config, "field_name")
    IN  IF ~OptTruthy(old_data) THEN FALSE
        ELSE IF ~Truthy(field_name) THEN old_data.dict # record_data
        ELSE Get(old_data.dict, field_name) # Get(record_data, field_name)

\* trigger_type == "field_updated" branch
field_updated_branch(trigger_config, record_data, old_data) ==
    LET field_name == Get(trigger_config, "field_name")
    IN  IF ~Truthy(field_name) THEN TRUE
        ELSE IF ~OptTruthy(old_data) THEN FALSE
        ELSE Get(old_data.dict, field_name) # Get(record_data, field_name)

\* a JSON list held where a field name is expected: truthy, not hashable
ListValue == "['priority']"

Hashable(v) == v # ListValue

\* old_data.get(field_name) raises TypeError on a field_name that is a list
field_updated_raises(trigger_config, old_data) ==
    LET field_name == Get(trigger_config, "field_name")
    IN  Truthy(field_name) /\ OptTruthy(old_data) /\ ~Hashable(field_name)

\* evaluator that reads trigger_config before looking at the trigger kind
check_trigger_conditions_EagerConfig(trigger_config, record_data, old_data, trigger_type) ==
    IF trigger_config.is_none THEN Raised
    ELSE IF trigger_type = "status_changed" THEN
        Returned(status_changed_branch(trigger_config.dict, record_data, old_data))
    ELSE IF trigger_type = "field_updated" THEN
        IF field_updated_raises(trigger_config.dict, old_data) THEN Raised
        ELSE Returned(field_updated_branch(trigger_config.dict, record_data, old_data))
    ELSE Returned(TRUE)

\* evaluator that rejects unknown trigger kinds
check_trigger_conditions_StrictKinds(trigger_config, record_data, old_data, trigger_type) ==
    IF trigger_type = "status_changed" THEN
        IF trigger_config.is_none THEN Raised
        ELSE Returned(status_changed_branch(trigger_config.dict, record_data, old_data))
    ELSE IF trigger_type = "field_updated" THEN
        IF trigger_config.is_none THEN Raised
        ELSE IF field_updated_raises(trigger_config.dict, old_data) THEN Raised
        ELSE Returned(field_updated_branch(trigger_config.dict, record_data, old_data))
    ELSE IF trigger_type = "record_created" THEN Returned(TRUE)
    ELSE IF trigger_type = "record_deleted" THEN Returned(TRUE)
    ELSE Returned(FALSE)

\* trigger_config is an Optional[dict] (a null column reads back as None),
\* record_data is record.get("data", {}), old_data an Optional[dict].
check_trigger_conditions(trigger_config, record_data, old_data, trigger_type) ==
    IF trigger_type = "status_changed" THEN
        IF trigger_config.is_none THEN Raised
        ELSE Returned(status_changed_branch(trigger_config.dict, record_data, old_data))
    ELSE IF trigger_type = "field_updated" THEN
        IF trigger_config.is_none THEN Raised
        ELSE IF field_updated_raises(trigger_config.dict, old_data) THEN Raised
        ELSE Returned(field_updated_branch(trigger_config.dict, record_data, old_data))
    ELSE IF trigger_type = "record_created" THEN Returned(TRUE)
    ELSE IF trigger_type = "record_deleted" THEN Returned(TRUE)
    ELSE Returned(TRUE)

----------------------------------------------------------------------------
(* Template substitution: _replace_template_variables.                     *)
(* re.sub(r'\{\{([^}]+)\}\}', ...) splits a template into literal text and *)
(* {{name}} tokens, leftmost match first; TemplateScan computes that split.*)

\* str.startswith
StartsWith(s, prefix) == Len(s) >= Len(prefix) /\ SubSeq(s, 1, Len(prefix)) = prefix

\* str.replace(old, new): every occurrence, left to right
RECURSIVE Replace(_, _, _)
Replace(s, old, new) ==
    IF Len(s) < Len(old) THEN s
    ELSE IF StartsWith(s, old) THEN new \o Replace(SubSeq(s, Len(old) + 1, Len(s)), old, new)
    ELSE SubSeq(s, 1, 1) \o Replace(SubSeq(s, 2, Len(s)), old, new)

\* str.strip(): the strings of the model hold no whitespace but the blank
RECURSIVE Strip(_)
Strip(s) ==
    IF Len(s) = 0 THEN ""
    ELSE IF SubSeq(s, 1, 1) = " " THEN Strip(SubSeq(s, 2, Len(s)))
    ELSE IF SubSeq(s, Len(s), Len(s)) = " " THEN Strip(SubSeq(s, 1, Len(s) - 1))
    ELSE s

\* Body applied to value, the value being computed once however often Body
\* refers to it (a local variable of the Python code)
Bind(value, Body(_)) == CHOOSE result \in {Body(v) : v \in {value}} : TRUE

Lit(text) == [lit |-> text]
Var(name) == [var |-> name]

\* the pattern \{\{([^}]+)\}\} matches template from position p to position
\* q + 1: "{{" at p, "}}" at q, and between them at least one character and
\* no "}" ([^}]+ stops at the first "}")
TokenAt(template, p, q) ==
    /\ SubSeq(template, p, p + 1) = "{{"
    /\ SubSeq(template, q, q + 1) = "}}"
    /\ \A r \in (p + 2)..(q - 1) : SubSeq(template, r, r) # "}"

\* the position of the closing braces of the match at position p, 0 if the
\* pattern does not match there
TokenClose(template, p) ==
    IF \E q \in (p + 3)..(Len(template) - 1) : TokenAt(template, p, q)
    THEN CHOOSE q \in (p + 3)..(Len(template) - 1) : TokenAt(template, p, q)
    ELSE 0

\* the non-overlapping matches of the pattern from position p on, left to
\* right, with the text between them (pieces of text may be empty); the text
\* since the last match begins at position from.  match.group(1).strip() is
\* the name of a match
RECURSIVE TemplateScan(_, _, _)
TemplateScan(template, p, from) ==
    CHOOSE tokens \in
        { IF at.p > Len(template)
          THEN << Lit(SubSeq(template, at.from, Len(template))) >>
          ELSE (IF at.close = 0 THEN << >>
                ELSE << Lit(SubSeq(template, at.from, at.p - 1)),
                        Var(Strip(SubSeq(template, at.p + 2, at.close - 1))) >>)
               \o TemplateScan(template,
                               IF at.close = 0 THEN at.p + 1 ELSE at.close + 2,
                               IF at.close = 0 THEN at.from ELSE at.close + 2)
          : at \in {[p |-> p, from |-> from, close |-> TokenClose(template, p)]} } : TRUE

TemplateTokens(template) == TemplateScan(template, 1, 1)

\* all_data = {**record_data, "id": record.get("id"),
\*             "created_at": record.get("created_at")}
TemplateData(record) ==
    DictSet(DictSet(record.data, "id", Get(record, "id")), "created_at",
            Get(record, "created_at"))

RECURSIVE RenderTokens(_, _)
RenderTokens(tokens, all_data) ==
    IF tokens = << >> THEN ""
    ELSE LET t == Head(tokens)
             piece == IF "lit" \in DOMAIN t THEN t.lit
                      ELSE LET value == GetD(all_data, t.var, "")
                           IN  IF value # None THEN value ELSE ""
         IN  piece \o RenderTokens(Tail(tokens), all_data)


\* _replace_template_variables, had it left a token whose name the lookup
\* does not hold as it stands
_replace_template_variables_KeepsUnresolved(template, record) ==
    IF ~Truthy(template) THEN ""
    ELSE LET tokens == TemplateTokens(template)
             all_data == TemplateData(record)
         IN  RenderTokens([i \in DOMAIN tokens |->
                              IF "var" \in DOMAIN tokens[i] /\ tokens[i].var \notin DOMAIN all_data
                              THEN Lit("{{" \o tokens[i].var \o "}}")
                              ELSE tokens[i]],
                          all_data)

_replace_template_variables(template, record) ==
    IF ~Truthy(template) THEN ""
    ELSE RenderTokens(TemplateTokens(template), TemplateData(record))

----------------------------------------------------------------------------
(* Action dispatchers.  Each returns                                       *)
(*   [ok |-> TRUE,  result, records, http]  or                             *)
(*   [ok |-> FALSE, error,  records, http]  (the exception it raises),     *)
(* records being the record store after the action and http the number of  *)
(* HTTP requests it sent.  env holds what the outside world answers:       *)
(*   env.http    the webhook endpoint: "200", "500" or "error" (no answer) *)
(*   env.db_ok   whether the records update goes through                   *)
(*   env.log_ok  whether the automation_logs insert goes through           *)

ActionOk(result, recs, http) == [ok |-> TRUE, result |-> result, records |-> recs, http |-> http]
ActionErr(error, recs, http) == [ok |-> FALSE, error |-> error, records |-> recs, http |-> http]

\* a or b, for str/None operands
PyOr(a, b) == IF Truthy(a) THEN a ELSE b

\* _send_email that prefers the config's to_email over the record's email
_send_email_ConfigFirst(config, record, recs) ==
    LET recipient == PyOr(Get(config, "to_email"), Get(record.data, "email"))
    IN  IF ~Truthy(recipient) THEN ActionErr("No recipient email found", recs, 0)
        ELSE LET subject == _replace_template_variables(GetD(config, "subject", ""), record)
                 body == _replace_template_variables(GetD(config, "body", ""), record)
             IN  ActionOk([email_sent |-> TRUE, recipient |-> recipient,
                           subject |-> subject, body_length |-> Len(body)], recs, 0)

_send_email(config, record, recs) ==
    LET recipient == PyOr(Get(record.data, "email"), Get(config, "to_email"))
    IN  IF ~Truthy(recipient) THEN ActionErr("No recipient email found", recs, 0)
        ELSE LET subject == _replace_template_variables(GetD(config, "subject", ""), record)
                 body == _replace_template_variables(GetD(config, "body", ""), record)
             IN  ActionOk([email_sent |-> TRUE, recipient |-> recipient,
                           subject |-> subject, body_length |-> Len(body)], recs, 0)

\* str.upper() on the method strings of the model
Upper(m) ==
    CASE m = "post" -> "POST"
      [] m = "put" -> "PUT"
      [] m = "patch" -> "PATCH"
      [] m = "get" -> "GET"
      [] OTHER -> m

\* _call_webhook that sends the request a second time after a failed one
_call_webhook_Retry(config, record, env, recs) ==
    LET url == Get(config, "url")
        method == Upper(GetD(config, "method", "POST"))
    IN  IF ~Truthy(url) THEN ActionErr("Webhook URL is required", recs, 0)
        ELSE IF method \notin {"POST", "PUT", "PATCH"}
            THEN ActionErr("Unsupported HTTP method: " \o method, recs, 0)
        ELSE IF env.http = "error" THEN ActionErr("ConnectError", recs, 2)
        ELSE IF env.http # "200" THEN ActionErr("HTTPStatusError " \o env.http, recs, 2)
        ELSE ActionOk([webhook_called |-> TRUE, url |-> url, method |-> method,
                       status_code |-> env.http], recs, 1)

_call_webhook(config, record, env, recs) ==
    LET url == Get(config, "url")
        method == Upper(GetD(config, "method", "POST"))
    IN  IF ~Truthy(url) THEN ActionErr("Webhook URL is required", recs, 0)
        ELSE IF method \notin {"POST", "PUT", "PATCH"}
            THEN ActionErr("Unsupported HTTP method: " \o method, recs, 0)
        ELSE IF env.http = "error" THEN ActionErr("ConnectError", recs, 1)
        ELSE IF env.http # "200" THEN ActionErr("HTTPStatusError " \o env.http, recs, 1)
        ELSE ActionOk([webhook_called |-> TRUE, url |-> url, method |-> method,
                       status_code |-> env.http], recs, 1)

\* records.update({"data": updated_data}).eq("id", record["id"])
UpdateRecordData(recs, id, updated_data) ==
    [r \in DOMAIN recs |-> IF r = id THEN [recs[r] EXCEPT !.data = updated_data] ELSE recs[r]]


\* _update_field that merges the field into the stored row instead of the
\* record it was handed
_update_field_MergesStored(config, record, env, recs) ==
    LET field_name == Get(config, "field_name")
        raw_value == Get(config, "new_value")
    IN  IF ~Truthy(field_name) THEN ActionErr("Field name is required", recs, 0)
        ELSE LET new_value == IF raw_value # None
                                THEN _replace_template_variables(raw_value, record)
                                ELSE raw_value
                 current_data == recs[record.id].data
                 updated_data == DictSet(current_data, field_name, new_value)
             IN  IF ~env.db_ok THEN ActionErr("records update failed", recs, 0)
                 ELSE ActionOk([field_updated |-> TRUE, field_name |-> field_name,
                                old_value |-> Get(current_data, field_name),
                                new_value |-> new_value],
                               UpdateRecordData(recs, record.id, updated_data), 0)

\* _update_field that persists the changed field alone instead of the merge
_update_field_FieldOnly(config, record, env, recs) ==
    LET field_name == Get(config, "field_name")
        raw_value == Get(config, "new_value")
    IN  IF ~Truthy(field_name) THEN ActionErr("Field name is required", recs, 0)
        ELSE LET new_value == IF raw_value # None
                                THEN _replace_template_variables(raw_value, record)
                                ELSE raw_value
                 current_data == record.data
                 updated_data == DictSet(EmptyDict, field_name, new_value)
             IN  IF ~env.db_ok THEN ActionErr("records update failed", recs, 0)
                 ELSE ActionOk([field_updated |-> TRUE, field_name |-> field_name,
                                old_value |-> Get(current_data, field_name),
                                new_value |-> new_value],
                               UpdateRecordData(recs, record.id, updated_data), 0)

_update_field(config, record, env, recs) ==
    LET field_name == Get(config, "field_name")
        raw_value == Get(config, "new_value")
    IN  IF ~Truthy(field_name) THEN ActionErr("Field name is required", recs, 0)
        ELSE LET new_value == IF raw_value # None
                                THEN _replace_template_variables(raw_value, record)
                                ELSE raw_value
                 current_data == record.data
                 updated_data == DictSet(current_data, field_name, new_value)
             IN  IF ~env.db_ok THEN ActionErr("records update failed", recs, 0)
                 ELSE ActionOk([field_updated |-> TRUE, field_name |-> field_name,
                                old_value |-> Get(current_data, field_name),
                                new_value |-> new_value],
                               UpdateRecordData(recs, record.id, updated_data), 0)

\* _create_task that notes the task on the record it relates to
_create_task_StoresTask(config, record, recs) ==
    LET title == _replace_template_variables(GetD(config, "title", ""), record)
        description == _replace_template_variables(GetD(config, "description", ""), record)
    IN  ActionOk([task_created |-> TRUE, title |-> title, description |-> description],
                 UpdateRecordData(recs, record.id, DictSet(record.data, "task", title)), 0)

_create_task(config, record, recs) ==
    LET title == _replace_template_variables(GetD(config, "title", ""), record)
        description == _replace_template_variables(GetD(config, "description", ""), record)
    IN  ActionOk([task_created |-> TRUE, title |-> title, description |-> description],
                 recs, 0)

\* if/elif chain whose else branch creates a task instead of raising
run_action_DefaultsToTask(automation_rule, record, env, recs) ==
    LET action_type == automation_rule.action_type
        action_config == automation_rule.action_config
    IN  IF action_type = "send_email" THEN _send_email(action_config, record, recs)
        ELSE IF action_type = "webhook" THEN _call_webhook(action_config, record, env, recs)
        ELSE IF action_type = "update_field" THEN _update_field(action_config, record, env, recs)
        ELSE _create_task(action_config, record, recs)

\* the if/elif chain of execute's try block
run_action(automation_rule, record, env, recs) ==
    LET action_type == automation_rule.action_type
        action_config == automation_rule.action_config
    IN  IF action_type = "send_email" THEN _send_email(action_config, record, recs)
        ELSE IF action_type = "webhook" THEN _call_webhook(action_config, record, env, recs)
        ELSE IF action_type = "update_field" THEN _update_field(action_config, record, env, recs)
        ELSE IF action_type = "create_task" THEN _create_task(action_config, record, recs)
        ELSE ActionErr("Unknown action type: " \o action_type, recs, 0)

----------------------------------------------------------------------------
(* Rule executor: AutomationExecutor.execute and _log_execution.           *)
(* The log row's executed_at timestamp is not modelled.                    *)

LogEntry(automation_id, record_id, status, result) ==
    [automation_id |-> automation_id, record_id |-> record_id,
     status |-> status, result |-> result]

\* insert into automation_logs; a failing insert is swallowed
_log_execution(logs, entry, env) ==
    IF env.log_ok THEN Append(logs, entry) ELSE logs

\* execute whose except branch is missing: the action's exception propagates
execute_NoCatch(automation_rule, record, env, logs, recs) ==
    LET action == run_action(automation_rule, record, env, recs)
    IN  IF action.ok
        THEN [raised |-> FALSE,
              envelope |-> [success |-> TRUE, action_type |-> automation_rule.action_type,
                            result |-> action.result],
              logs |-> _log_execution(logs, LogEntry(automation_rule.id, record.id,
                                                     "success", action.result), env),
              records |-> action.records, http |-> action.http]
        ELSE [raised |-> TRUE, logs |-> logs, records |-> action.records,
              http |-> action.http]

\* execute whose except branch returns the failure without logging it
execute_ErrorNotLogged(automation_rule, record, env, logs, recs) ==
    LET action == run_action(automation_rule, record, env, recs)
    IN  IF action.ok
        THEN [raised |-> FALSE,
              envelope |-> [success |-> TRUE, action_type |-> automation_rule.action_type,
                            result |-> action.result],
              logs |-> _log_execution(logs, LogEntry(automation_rule.id, record.id,
                                                     "success", action.result), env),
              records |-> action.records, http |-> action.http]
        ELSE [raised |-> FALSE,
              envelope |-> [success |-> FALSE, error |-> action.error],
              logs |-> logs,
              records |-> action.records, http |-> action.http]

\* execute whose log write is not shielded: a failing insert after a
\* successful action lands in the except branch, which reports the insert's
\* error and writes a second, error-status row
execute_LogNotSwallowed(automation_rule, record, env, logs, recs) ==
    LET action == run_action(automation_rule, record, env, recs)
    IN  IF action.ok /\ env.log_ok
        THEN [raised |-> FALSE,
              envelope |-> [success |-> TRUE, action_type |-> automation_rule.action_type,
                            result |-> action.result],
              logs |-> Append(logs, LogEntry(automation_rule.id, record.id,
                                             "success", action.result)),
              records |-> action.records, http |-> action.http]
        ELSE IF action.ok
        THEN [raised |-> FALSE,
              envelope |-> [success |-> FALSE, error |-> "automation_logs insert failed"],
              logs |-> Append(logs, LogEntry(automation_rule.id, record.id, "error",
                                             [error |-> "automation_logs insert failed"])),
              records |-> action.records, http |-> action.http]
        ELSE [raised |-> FALSE,
              envelope |-> [success |-> FALSE, error |-> action.error],
              logs |-> _log_execution(logs, LogEntry(automation_rule.id, record.id,
                                                     "error", [error |-> action.error]), env),
              records |-> action.records, http |-> action.http]

\* returns [raised, envelope, logs, records, http]: the envelope handed back,
\* the log and the record store afterwards
execute(automation_rule, record, env, logs, recs) ==
    LET action == run_action(automation_rule, record, env, recs)
    IN  IF action.ok
        THEN [raised |-> FALSE,
              envelope |-> [success |-> TRUE, action_type |-> automation_rule.action_type,
                            result |-> action.result],
              logs |-> _log_execution(logs, LogEntry(automation_rule.id, record.id,
                                                     "success", action.result), env),
              records |-> action.records, http |-> action.http]
        ELSE [raised |-> FALSE,
              envelope |-> [success |-> FALSE, error |-> action.error],
              logs |-> _log_execution(logs, LogEntry(automation_rule.id, record.id,
                                                     "error", [error |-> action.error]), env),
              records |-> action.records, http |-> action.http]

----------------------------------------------------------------------------
(* Trigger dispatcher: the loop of trigger_automations.                    *)
(* acc = [raised, results, events, logs, records]; events notes, for each  *)
(* rule the loop reached, whether its condition matched, whether its       *)
(* action failed and whether the log insert went through.  An exception    *)
(* leaving check_trigger_conditions or execute ends the loop and the call  *)
(* (acc.raised).                                                           *)

\* loop body that keeps only the results of successful executions
loop_body_SkipsFailed(automation, env, record, old_data, trigger_type, acc) ==
    LET cond == check_trigger_conditions(automation.trigger_config, record.data,
                                         old_data, trigger_type)
    IN  IF cond.raised THEN [acc EXCEPT !.raised = TRUE]
        ELSE IF ~cond.value
        THEN [acc EXCEPT !.events = Append(@, [automation_id |-> automation.id,
                                               matched |-> FALSE, failed |-> FALSE,
                                               log_ok |-> TRUE, http |-> 0])]
        ELSE Bind(execute(automation, record, env, acc.logs, acc.records),
                  LAMBDA ex :
                      LET failed == ~run_action(automation, record, env, acc.records).ok
                          event == [automation_id |-> automation.id, matched |-> TRUE,
                                    failed |-> failed, log_ok |-> env.log_ok,
                                    http |-> ex.http]
                      IN  IF ex.raised
                          THEN [acc EXCEPT !.raised = TRUE, !.events = Append(@, event),
                                           !.logs = ex.logs, !.records = ex.records]
                          ELSE [raised |-> FALSE,
                                results |-> IF failed THEN acc.results
                                            ELSE Append(acc.results, ex.envelope),
                                events |-> Append(acc.events, event),
                                logs |-> ex.logs, records |-> ex.records])

\* one pass of the for loop: the rule is checked and, if it matches, executed
loop_body(automation, env, record, old_data, trigger_type, acc) ==
    LET cond == check_trigger_conditions(automation.trigger_config, record.data,
                                         old_data, trigger_type)
    IN  IF cond.raised THEN [acc EXCEPT !.raised = TRUE]
        ELSE IF ~cond.value
        THEN [acc EXCEPT !.events = Append(@, [automation_id |-> automation.id,
                                               matched |-> FALSE, failed |-> FALSE,
                                               log_ok |-> TRUE, http |-> 0])]
        ELSE Bind(execute(automation, record, env, acc.logs, acc.records),
                  LAMBDA ex :
                      LET failed == ~run_action(automation, record, env, acc.records).ok
                          event == [automation_id |-> automation.id, matched |-> TRUE,
                                    failed |-> failed, log_ok |-> env.log_ok,
                                    http |-> ex.http]
                      IN  IF ex.raised
                          THEN [acc EXCEPT !.raised = TRUE, !.events = Append(@, event),
                                           !.logs = ex.logs, !.records = ex.records]
                          ELSE [raised |-> FALSE,
                                results |-> Append(acc.results, ex.envelope),
                                events |-> Append(acc.events, event),
                                logs |-> ex.logs, records |-> ex.records])

RECURSIVE dispatch_loop(_, _, _, _, _, _)
dispatch_loop(automations, envs, record, old_data, trigger_type, acc_in) ==
    Bind(acc_in,
         LAMBDA acc :
             IF automations = << >> \/ acc.raised THEN acc
             ELSE dispatch_loop(Tail(automations), Tail(envs), record, old_data,
                                trigger_type,
                                loop_body(Head(automations), Head(envs), record, old_data,
                                          trigger_type, acc)))

\* select without the is_active filter
LoadAutomations_IgnoresActive(rules, workspace_id, entity_id, trigger_type) ==
    SelectSeq(rules, LAMBDA r : /\ r.workspace_id = workspace_id
                                /\ r.entity_id = entity_id
                                /\ r.trigger_type = trigger_type)

\* .eq("workspace_id", ..).eq("entity_id", ..).eq("trigger_type", ..).eq("is_active", True)
LoadAutomations(rules, workspace_id, entity_id, trigger_type) ==
    SelectSeq(rules, LAMBDA r : /\ r.workspace_id = workspace_id
                                /\ r.entity_id = entity_id
                                /\ r.trigger_type = trigger_type
                                /\ r.is_active)

----------------------------------------------------------------------------
(* Rule API: request models and validation (api/automations.py) *)

ActionKeys == {"subject", "body", "to_email", "url", "method", "field_name", "new_value",
               "title", "description"}

\* ActionConfig(**body): unset fields are None, method defaults to "POST";
\* body is the JSON object sent (a key may hold null).  headers is left out.
ActionConfig(body) ==
    [k \in ActionKeys |-> IF k \in DOMAIN body THEN body[k]
                          ELSE IF k = "method" THEN "POST" ELSE None]

\* model.dict(exclude_none=True)
dict_exclude_none(model) ==
    [k \in {x \in DOMAIN model : model[x] # None} |-> model[k]]

\* TRUE when _validate_action_config raises HTTPException(400)
_validate_action_config(action_type, config) ==
    IF action_type = "send_email" THEN ~Truthy(config["subject"]) \/ ~Truthy(config["body"])
    ELSE IF action_type = "webhook"
        THEN ~Truthy(config["url"]) \/ config["method"] \notin {"POST", "PUT", "PATCH"}
    ELSE IF action_type = "update_field" THEN ~Truthy(config["field_name"])
    ELSE IF action_type = "create_task" THEN ~Truthy(config["title"])
    ELSE FALSE

ActionTypes == {"send_email", "webhook", "update_field", "create_task"}

----------------------------------------------------------------------------
(* The stores and what surrounds them *)

MaxRules == 2       \* automation rules inserted in a run
MaxLogs == 2        \* rows the execution log may reach in a run

Workspaces == {"w1", "w2"}

\* table entities: id -> workspace_id (maintained outside the automation engine)
entities == [e1 |-> "w1", e2 |-> "w2"]

InitRecords ==
    [r1 |-> [entity_id |-> "e1", data |-> [status |-> "new", priority |-> "low"]],
     r2 |-> [entity_id |-> "e2", data |-> [email |-> "ann@example.com"]]]

NoResponse == [op |-> "none"]

\* table workspaces before any request of a run: two active workspaces and
\* one that was switched off
InitWorkspaces ==
    [w1 |-> [slug |-> "acme", owner_id |-> "u_owner", is_active |-> TRUE],
     w2 |-> [slug |-> "globex", owner_id |-> "u_other", is_active |-> TRUE],
     w3 |-> [slug |-> "closed", owner_id |-> "u_owner", is_active |-> FALSE]]

\* table workspace_members before any request of a run: one owner row for
\* each workspace, and members of the other roles
InitMembers ==
    {[workspace_id |-> "w1", user_id |-> "u_owner", role |-> "owner"],
     [workspace_id |-> "w1", user_id |-> "u_admin", role |-> "admin"],
     [workspace_id |-> "w1", user_id |-> "u_member", role |-> "member"],
     [workspace_id |-> "w1", user_id |-> "u_viewer", role |-> "viewer"],
     [workspace_id |-> "w2", user_id |-> "u_other", role |-> "owner"],
     [workspace_id |-> "w2", user_id |-> "u_admin", role |-> "member"],
     [workspace_id |-> "w3", user_id |-> "u_owner", role |-> "owner"]}

\* the server processes that handle trigger events
Processes == {"p1", "p2"}

Idle == [idle |-> TRUE]

InitStore ==
    /\ automation_rules = << >>
    /\ automation_logs = << >>
    /\ records = InitRecords
    /\ next_id = 0
    /\ response = NoResponse
    /\ crm_records = EmptyDict
    /\ workspaces = InitWorkspaces
    /\ workspace_members = InitMembers
    /\ in_flight = [p \in Processes |-> Idle]

AllOk == [http |-> "200", db_ok |-> TRUE, log_ok |-> TRUE]

\* the outside world during one execution: all well, or one thing going wrong
Envs ==
    {AllOk,
     [AllOk EXCEPT !.http = "500"],
     [AllOk EXCEPT !.http = "error"],
     [AllOk EXCEPT !.db_ok = FALSE],
     [AllOk EXCEPT !.log_ok = FALSE]}


\* the row lookup without the workspace filter
RuleIndex_AnyWorkspace(rules, automation_id, workspace_id) ==
    LET hits == {i \in 1..Len(rules) : rules[i].id = automation_id}
    IN  IF hits = {} THEN 0 ELSE CHOOSE i \in hits : TRUE

\* position of the row with this id and workspace in the rule table, 0 if none
RuleIndex(rules, automation_id, workspace_id) ==
    LET hits == {i \in 1..Len(rules) : /\ rules[i].id = automation_id
                                       /\ rules[i].workspace_id = workspace_id}
    IN  IF hits = {} THEN 0 ELSE CHOOSE i \in hits : TRUE

RemoveAt(seq, i) == SubSeq(seq, 1, i - 1) \o SubSeq(seq, i + 1, Len(seq))

----------------------------------------------------------------------------
(* Requests of the rule API.  request is the body after pydantic           *)
(* validation; db_ok tells whether the table call goes through.            *)

create_automation(workspace_id, request, db_ok) ==
    /\ next_id < MaxRules
    /\ UNCHANGED <<automation_logs, records, cond_in, cond_out, crm_records, workspaces, workspace_members, in_flight>>
    /\ LET config == ActionConfig(request.action_config)
       IN  IF ~db_ok
           THEN /\ response' = [op |-> "create_automation", status |-> 500]
                /\ UNCHANGED <<automation_rules, next_id>>
           ELSE IF ~(request.entity_id \in DOMAIN entities
                     /\ entities[request.entity_id] = workspace_id)
           THEN /\ response' = [op |-> "create_automation", status |-> 404]
                /\ UNCHANGED <<automation_rules, next_id>>
           ELSE IF _validate_action_config(request.action_type, config)
           THEN /\ response' = [op |-> "create_automation", status |-> 400]
                /\ UNCHANGED <<automation_rules, next_id>>
           ELSE LET automation ==
                        [id |-> next_id + 1,
                         workspace_id |-> workspace_id,
                         entity_id |-> request.entity_id,
                         name |-> request.name,
                         trigger_type |-> request.trigger_type,
                         trigger_config |-> SomeDict(request.trigger_config),
                         action_type |-> request.action_type,
                         action_config |-> dict_exclude_none(config),
                         is_active |-> request.is_active]
                IN  /\ automation_rules' = Append(automation_rules, automation)
                    /\ next_id' = next_id + 1
                    /\ response' = [op |-> "create_automation", status |-> 201,
                                    automation |-> automation]


\* update_automation, had it written a whole row: the fields not supplied
\* take the values of a request that leaves them out
update_automation_ReplacesRow(workspace_id, automation_id, request, db_ok) ==
    /\ UNCHANGED <<automation_logs, records, next_id, cond_in, cond_out, crm_records, workspaces, workspace_members, in_flight>>
    /\ LET i == RuleIndex(automation_rules, automation_id, workspace_id)
           old == automation_rules[i]
           updated ==
               [f \in DOMAIN old |->
                   IF f \notin DOMAIN request
                   THEN (IF f = "name" THEN "None"
                         ELSE IF f = "is_active" THEN TRUE
                         ELSE IF f \in {"trigger_config", "action_config"} THEN EmptyDict
                         ELSE old[f])
                   ELSE IF f = "action_config"
                       THEN dict_exclude_none(ActionConfig(request.action_config))
                   ELSE IF f = "trigger_config" THEN SomeDict(request.trigger_config)
                   ELSE request[f]]
       IN  IF DOMAIN request = {}
           THEN /\ response' = [op |-> "update_automation", status |-> 400]
                /\ UNCHANGED automation_rules
           ELSE IF ~db_ok
           THEN /\ response' = [op |-> "update_automation", status |-> 500]
                /\ UNCHANGED automation_rules
           ELSE IF i = 0
           THEN /\ response' = [op |-> "update_automation", status |-> 404]
                /\ UNCHANGED automation_rules
           ELSE /\ automation_rules' = [automation_rules EXCEPT ![i] = updated]
                /\ response' = [op |-> "update_automation", status |-> 200,
                                automation |-> updated]

\* request holds the supplied (non-null) fields among name, is_active,
\* trigger_config, action_config
update_automation(workspace_id, automation_id, request, db_ok) ==
    /\ UNCHANGED <<automation_logs, records, next_id, cond_in, cond_out, crm_records, workspaces, workspace_members, in_flight>>
    /\ LET i == RuleIndex(automation_rules, automation_id, workspace_id)
           old == automation_rules[i]
           updated ==
               [f \in DOMAIN old |->
                   IF f \notin DOMAIN request THEN old[f]
                   ELSE IF f = "action_config"
                       THEN dict_exclude_none(ActionConfig(request.action_config))
                   ELSE IF f = "trigger_config" THEN SomeDict(request.trigger_config)
                   ELSE request[f]]
       IN  IF DOMAIN request = {}
           THEN /\ response' = [op |-> "update_automation", status |-> 400]
                /\ UNCHANGED automation_rules
           ELSE IF ~db_ok
           THEN /\ response' = [op |-> "update_automation", status |-> 500]
                /\ UNCHANGED automation_rules
           ELSE IF i = 0
           THEN /\ response' = [op |-> "update_automation", status |-> 404]
                /\ UNCHANGED automation_rules
           ELSE /\ automation_rules' = [automation_rules EXCEPT ![i] = updated]
                /\ response' = [op |-> "update_automation", status |-> 200,
                                automation |-> updated]


\* delete_automation, had it removed the execution log of the rule with the rule
delete_automation_CascadesLogs(workspace_id, automation_id, db_ok) ==
    /\ UNCHANGED <<records, next_id, cond_in, cond_out, crm_records, workspaces, workspace_members, in_flight>>
    /\ LET i == RuleIndex(automation_rules, automation_id, workspace_id)
       IN  IF ~db_ok
           THEN /\ response' = [op |-> "delete_automation", status |-> 500]
                /\ UNCHANGED <<automation_rules, automation_logs>>
           ELSE IF i = 0
           THEN /\ response' = [op |-> "delete_automation", status |-> 404]
                /\ UNCHANGED <<automation_rules, automation_logs>>
           ELSE /\ automation_rules' = RemoveAt(automation_rules, i)
                /\ automation_logs' = SelectSeq(automation_logs,
                                                LAMBDA log : log.automation_id # automation_id)
                /\ response' = [op |-> "delete_automation", status |-> 200]

delete_automation(workspace_id, automation_id, db_ok) ==
    /\ UNCHANGED <<automation_logs, records, next_id, cond_in, cond_out, crm_records, workspaces, workspace_members, in_flight>>
    /\ LET i == RuleIndex(automation_rules, automation_id, workspace_id)
       IN  IF ~db_ok
           THEN /\ response' = [op |-> "delete_automation", status |-> 500]
                /\ UNCHANGED automation_rules
           ELSE IF i = 0
           THEN /\ response' = [op |-> "delete_automation", status |-> 404]
                /\ UNCHANGED automation_rules
           ELSE /\ automation_rules' = RemoveAt(automation_rules, i)
                /\ response' = [op |-> "delete_automation", status |-> 200]

\* Step 5 of generate_workspace_with_ai (api/workspaces.py): the automation
\* rules the AI suggested are inserted as they are, for the workspace and the
\* entity the same request has just created.  A suggestion holds name,
\* trigger_type, trigger_config, action_type, action_config (dicts of any
\* content) and enabled; no pattern and no _validate_action_config applies.
generate_workspace_with_ai(workspace_id, entity_id, suggested_automations) ==
    /\ next_id + Len(suggested_automations) <= MaxRules
    /\ \A i \in 1..Len(automation_rules) : automation_rules[i].workspace_id # workspace_id
    /\ UNCHANGED <<automation_logs, records, cond_in, cond_out, crm_records, workspaces, workspace_members, in_flight>>
    /\ LET automation_data(k) ==
               LET automation == suggested_automations[k]
               IN  [id |-> next_id + k,
                    workspace_id |-> workspace_id,
                    entity_id |-> entity_id,
                    name |-> automation.name,
                    trigger_type |-> automation.trigger_type,
                    trigger_config |-> SomeDict(automation.trigger_config),
                    action_type |-> automation.action_type,
                    action_config |-> automation.action_config,
                    is_active |-> automation.enabled]
           created_automations == [k \in 1..Len(suggested_automations) |-> automation_data(k)]
       IN  /\ automation_rules' = automation_rules \o created_automations
           /\ next_id' = next_id + Len(suggested_automations)
           /\ response' = [op |-> "generate_workspace_with_ai", status |-> 200,
                           automations |-> created_automations]


\* test_automation, had it asked the condition evaluator before executing
test_automation_ChecksTrigger(workspace_id, automation_id, record_id, env) ==
    /\ Len(automation_logs) < MaxLogs
    /\ UNCHANGED <<automation_rules, next_id, cond_in, cond_out, crm_records, workspaces, workspace_members, in_flight>>
    /\ LET i == RuleIndex(automation_rules, automation_id, workspace_id)
       IN  IF i = 0
           THEN /\ response' = [op |-> "test_automation", status |-> 404]
                /\ UNCHANGED <<automation_logs, records>>
           ELSE IF ~(record_id \in DOMAIN records
                     /\ records[record_id].entity_id = automation_rules[i].entity_id)
           THEN /\ response' = [op |-> "test_automation", status |-> 404]
                /\ UNCHANGED <<automation_logs, records>>
           ELSE LET automation == automation_rules[i]
                    record == [id |-> record_id, data |-> records[record_id].data]
                    cond == check_trigger_conditions(automation.trigger_config, record.data,
                                                     NoneDict, automation.trigger_type)
                    ex == execute(automation, record, env, automation_logs, records)
                IN  IF cond.raised \/ ex.raised
                    THEN /\ response' = [op |-> "test_automation", status |-> 500]
                         /\ automation_logs' = IF cond.raised THEN automation_logs ELSE ex.logs
                         /\ records' = IF cond.raised THEN records ELSE ex.records
                    ELSE IF ~cond.value
                    THEN /\ response' = [op |-> "test_automation", status |-> 200,
                                         workspace_id |-> workspace_id,
                                         automation_id |-> automation_id,
                                         record_id |-> record_id,
                                         log_ok |-> env.log_ok,
                                         env |-> env, http |-> 0,
                                         test_result |-> [success |-> FALSE,
                                                          error |-> "not triggered"]]
                         /\ UNCHANGED <<automation_logs, records>>
                    ELSE /\ response' = [op |-> "test_automation", status |-> 200,
                                         workspace_id |-> workspace_id,
                                         automation_id |-> automation_id,
                                         record_id |-> record_id,
                                         log_ok |-> env.log_ok,
                                         env |-> env, http |-> ex.http,
                                         test_result |-> ex.envelope]
                         /\ automation_logs' = ex.logs
                         /\ records' = ex.records

\* runs the rule against the record without looking at its trigger
test_automation(workspace_id, automation_id, record_id, env) ==
    /\ Len(automation_logs) < MaxLogs
    /\ UNCHANGED <<automation_rules, next_id, cond_in, cond_out, crm_records, workspaces, workspace_members, in_flight>>
    /\ LET i == RuleIndex(automation_rules, automation_id, workspace_id)
       IN  IF i = 0
           THEN /\ response' = [op |-> "test_automation", status |-> 404]
                /\ UNCHANGED <<automation_logs, records>>
           ELSE IF ~(record_id \in DOMAIN records
                     /\ records[record_id].entity_id = automation_rules[i].entity_id)
           THEN /\ response' = [op |-> "test_automation", status |-> 404]
                /\ UNCHANGED <<automation_logs, records>>
           ELSE LET automation == automation_rules[i]
                    record == [id |-> record_id, data |-> records[record_id].data]
                    ex == execute(automation, record, env, automation_logs, records)
                IN  IF ex.raised
                    THEN /\ response' = [op |-> "test_automation", status |-> 500]
                         /\ automation_logs' = ex.logs
                         /\ records' = ex.records
                    ELSE /\ response' = [op |-> "test_automation", status |-> 200,
                                         workspace_id |-> workspace_id,
                                         automation_id |-> automation_id,
                                         record_id |-> record_id,
                                         log_ok |-> env.log_ok,
                                         env |-> env, http |-> ex.http,
                                         test_result |-> ex.envelope]
                         /\ automation_logs' = ex.logs
                         /\ records' = ex.records

----------------------------------------------------------------------------
(* The trigger dispatcher's entry point.  load_ok tells whether the select *)
(* on automation_rules goes through; envs[i] is the outside world during   *)
(* the execution of the i-th loaded rule.                                  *)

trigger_automations(workspace_id, entity_id, trigger_type, record, old_data, load_ok, envs) ==
    /\ UNCHANGED <<automation_rules, next_id, cond_in, cond_out, crm_records, workspaces, workspace_members, in_flight>>
    /\ LET automations == LoadAutomations(automation_rules, workspace_id, entity_id,
                                          trigger_type)
           call == [workspace_id |-> workspace_id, entity_id |-> entity_id,
                    trigger_type |-> trigger_type, record |-> record,
                    old_data |-> old_data]
       IN  /\ Len(automation_logs) + Len(automations) <= MaxLogs
           /\ Len(envs) = Len(automations)
           /\ IF ~load_ok
              THEN /\ response' = [op |-> "trigger_automations", raised |-> TRUE,
                                   call |-> call, load_ok |-> FALSE,
                                   record_id |-> record.id, loaded |-> << >>,
                                   results |-> << >>, events |-> << >>]
                   /\ UNCHANGED <<automation_logs, records>>
              ELSE LET acc == dispatch_loop(automations, envs, record, old_data,
                                  trigger_type,
                                  [raised |-> FALSE, results |-> << >>, events |-> << >>,
                                   logs |-> automation_logs, records |-> records])
                   IN  /\ response' = [op |-> "trigger_automations", raised |-> acc.raised,
                                       call |-> call, load_ok |-> TRUE,
                                       record_id |-> record.id,
                                       loaded |-> [k \in 1..Len(automations) |->
                                                      automations[k].id],
                                       results |-> acc.results, events |-> acc.events]
                       /\ automation_logs' = acc.logs
                       /\ records' = acc.records

----------------------------------------------------------------------------
(* Inputs *)

Request(trigger_config, action_type, action_config) ==
    [name |-> "rule", entity_id |-> "e1", trigger_type |-> "status_changed",
     trigger_config |-> trigger_config,
     action_type |-> action_type, action_config |-> action_config,
     is_active |-> TRUE]

WebhookRule == Request(EmptyDict, "webhook", [url |-> "https://hook.example"])
TaskRule == Request([to_status |-> "won"], "create_task", [title |-> "Follow up {{status}}"])

\* create requests of the engine specification: two rules the API accepts,
\* one it refuses (400) and one for an entity of another workspace (404)
EngineRequests ==
    {WebhookRule, TaskRule,
     Request(EmptyDict, "webhook", EmptyDict),
     [WebhookRule EXCEPT !.entity_id = "e2"]}

OldData == [status |-> "new", priority |-> "low"]

\* trigger events: record r1 went from status new to won or to qualified
\* (reported with its old data), or was just created
Events ==
    {[trigger_type |-> "status_changed", old_data |-> SomeDict(OldData),
      record |-> [id |-> "r1", data |-> [status |-> "won", priority |-> "low"]]],
     [trigger_type |-> "status_changed", old_data |-> SomeDict(OldData),
      record |-> [id |-> "r1", data |-> [status |-> "qualified", priority |-> "low"]]],
     [trigger_type |-> "record_created", old_data |-> NoneDict,
      record |-> [id |-> "r1", data |-> OldData]]}

\* sequences of n elements of S
SeqsOfLen(S, n) == [1..n -> S]

\* what can go wrong while this rule executes: the log insert, and besides
\* it the webhook call or the records update
EnvsFor(automation) ==
    {AllOk, [AllOk EXCEPT !.log_ok = FALSE]}
    \cup (IF automation.action_type = "webhook"
          THEN {[AllOk EXCEPT !.http = "500"], [AllOk EXCEPT !.http = "error"]} ELSE {})
    \cup (IF automation.action_type = "update_field"
          THEN {[AllOk EXCEPT !.db_ok = FALSE]} ELSE {})

EnvSeqsFor(automations) ==
    {envs \in SeqsOfLen(Envs, Len(automations)) :
        \A i \in 1..Len(automations) : envs[i] \in EnvsFor(automations[i])}

CreateEngine == \E request \in EngineRequests :
    create_automation("w1", request, TRUE)

Dispatch ==
    \E event \in Events :
        \E envs \in EnvSeqsFor(LoadAutomations(automation_rules, "w1", "e1",
                                               event.trigger_type)) :
            trigger_automations("w1", "e1", event.trigger_type, event.record,
                                event.old_data, TRUE, envs)

\* the select on automation_rules fails
DispatchLoadFails ==
    \E event \in Events :
        trigger_automations("w1", "e1", event.trigger_type, event.record, event.old_data,
                            FALSE,
                            [i \in 1..Len(LoadAutomations(automation_rules, "w1", "e1",
                                                          event.trigger_type)) |-> AllOk])

TestRule == \E id \in 1..MaxRules, record_id \in DOMAIN records :
    \E env \in (IF RuleIndex(automation_rules, id, "w1") = 0 THEN {AllOk}
                ELSE EnvsFor(automation_rules[RuleIndex(automation_rules, id, "w1")])) :
        test_automation("w1", id, record_id, env)

Init ==
    /\ InitStore
    /\ cond_in = [trigger_type |-> "record_created", trigger_config |-> NoneDict,
                  record_data |-> EmptyDict, old_data |-> NoneDict]
    /\ cond_out = Pending

Next == CreateEngine \/ Dispatch \/ DispatchLoadFails \/ TestRule

Spec == Init /\ [][Next]_vars

----------------------------------------------------------------------------
(* The rule API alone: create, update and delete requests, with            *)
(* action_config bodies that hold all, some or none of the fields an       *)
(* action uses.                                                            *)

ConfigBodies ==
    {EmptyDict,
     [subject |-> "Deal {{status}}", body |-> "Hello", to_email |-> "ops@example.com"],
     [subject |-> "Deal {{status}}"],
     [url |-> "https://hook.example"],
     [url |-> "https://hook.example", method |-> "GET"],
     [url |-> "https://hook.example", method |-> None],
     [field_name |-> "priority", new_value |-> "high"],
     [new_value |-> "high"],
     [title |-> "Follow up {{status}}", description |-> "{{ priority }}!"],
     [description |-> "{{ priority }}!"]}

CrudRequests ==
    {Request(EmptyDict, action_type, body) :
        action_type \in ActionTypes, body \in ConfigBodies}

UpdateRequests ==
    {EmptyDict,
     [is_active |-> FALSE],
     [action_config |-> EmptyDict],
     [name |-> "renamed", action_config |-> [url |-> "https://hook.example",
                                             method |-> "GET"]]}

CreateRule == \E request \in CrudRequests, db_ok \in BOOLEAN :
    create_automation("w1", request, db_ok)

UpdateRule == \E ws \in Workspaces, id \in 1..MaxRules, request \in UpdateRequests,
                 db_ok \in BOOLEAN :
    update_automation(ws, id, request, db_ok)

DeleteRule == \E ws \in Workspaces, id \in 1..MaxRules, db_ok \in BOOLEAN :
    delete_automation(ws, id, db_ok)

NextCrud == CreateRule \/ UpdateRule \/ DeleteRule

SpecCrud == Init /\ [][NextCrud]_vars

----------------------------------------------------------------------------
(* The rule executor alone: one rule stored by the workspace generator     *)
(* (any action_type, any action_config) is run through test_automation     *)
(* against records with an email, with an empty email and without one.     *)

ExecRecords ==
    [r1 |-> [entity_id |-> "e1", data |-> [status |-> "new", priority |-> "low"]],
     r2 |-> [entity_id |-> "e1", data |-> [status |-> "new", email |-> "ann@example.com"]],
     r3 |-> [entity_id |-> "e1", data |-> [email |-> ""]]]

\* an AutomationSuggestion of the generated configuration
Suggestion(trigger_type, trigger_config, action_type, action_config, enabled) ==
    [name |-> "suggested", trigger_type |-> trigger_type, trigger_config |-> trigger_config,
     action_type |-> action_type, action_config |-> action_config, enabled |-> enabled]

UnknownActionTypes == {"send_sms", ""}

ExecConfigs ==
    [send_email |->
        {EmptyDict,
         [subject |-> "Deal {{status}}", body |-> "Hello"],
         [subject |-> "Deal {{status}}", body |-> "Hello", to_email |-> "ops@example.com"],
         [subject |-> "Deal {{status}}", body |-> "Hello", to_email |-> ""]},
     webhook |->
        {EmptyDict,
         [url |-> "https://hook.example"],
         [url |-> "https://hook.example", method |-> "put"],
         [url |-> "https://hook.example", method |-> "GET"],
         [url |-> "", method |-> "POST"]},
     update_field |->
        {[field_name |-> "priority", new_value |-> "high"],
         [field_name |-> "priority", new_value |-> "Deal {{status}}"],
         [field_name |-> "stage", new_value |-> None],
         [field_name |-> "", new_value |-> "high"],
         [new_value |-> "high"]},
     create_task |->
        {[title |-> "Follow up {{status}}"]}]

ExecSuggestions ==
    {Suggestion("record_created", EmptyDict, action_type, action_config, TRUE) :
        action_type \in {"send_email"}, action_config \in ExecConfigs.send_email}
    \cup {Suggestion("record_created", EmptyDict, "webhook", action_config, TRUE) :
             action_config \in ExecConfigs.webhook}
    \cup {Suggestion("record_created", EmptyDict, "update_field", action_config, TRUE) :
             action_config \in ExecConfigs.update_field}
    \cup {Suggestion("record_created", EmptyDict, "create_task", action_config, TRUE) :
             action_config \in ExecConfigs.create_task}
    \cup {Suggestion("record_created", EmptyDict, action_type,
                     [url |-> "https://hook.example", title |-> "Follow up"], TRUE) :
             action_type \in UnknownActionTypes}

InitExec ==
    /\ automation_rules = << >>
    /\ automation_logs = << >>
    /\ records = ExecRecords
    /\ next_id = 0
    /\ response = NoResponse
    /\ crm_records = EmptyDict
    /\ workspaces = InitWorkspaces
    /\ workspace_members = InitMembers
    /\ in_flight = [p \in Processes |-> Idle]
    /\ cond_in = [trigger_type |-> "record_created", trigger_config |-> NoneDict,
                  record_data |-> EmptyDict, old_data |-> NoneDict]
    /\ cond_out = Pending

GenerateExec == \E suggestion \in ExecSuggestions :
    generate_workspace_with_ai("w1", "e1", << suggestion >>)

TestExec ==
    /\ automation_rules # << >>
    /\ \E record_id \in DOMAIN records, env \in EnvsFor(automation_rules[1]) :
          test_automation("w1", automation_rules[1].id, record_id, env)

NextExec == GenerateExec \/ TestExec

SpecExec == InitExec /\ [][NextExec]_vars

----------------------------------------------------------------------------
(* The life of the rules: rules are created through the API in workspace   *)
(* w1 (active or not) or stored by the workspace generator for workspace   *)
(* w2, switched on and off, deleted, and events are dispatched for either  *)
(* workspace.  A generated rule may hold a trigger_config the API would    *)
(* not have produced (a list as field_name).                               *)

LifeRequests ==
    {TaskRule,
     [TaskRule EXCEPT !.trigger_type = "record_created", !.is_active = FALSE]}

GoodSuggestion ==
    Suggestion("field_updated", [field_name |-> "priority"], "create_task",
               [title |-> "Review"], TRUE)

MalformedSuggestion ==
    Suggestion("field_updated", [field_name |-> ListValue], "create_task",
               [title |-> "Review"], TRUE)

LifeSuggestionLists ==
    {<< GoodSuggestion >>, << MalformedSuggestion >>, << GoodSuggestion, MalformedSuggestion >>}

\* the events of Events for entity e1 of workspace w1, a priority change of
\* record r2 (entity e2 of workspace w2), and a status change reported for
\* entity e2 under workspace w1
LifeEvents ==
    {[workspace_id |-> "w1", entity_id |-> "e1", trigger_type |-> "status_changed",
      old_data |-> SomeDict(OldData),
      record |-> [id |-> "r1", data |-> [status |-> "won", priority |-> "low"]]],
     [workspace_id |-> "w1", entity_id |-> "e1", trigger_type |-> "record_created",
      old_data |-> NoneDict,
      record |-> [id |-> "r1", data |-> OldData]],
     [workspace_id |-> "w2", entity_id |-> "e2", trigger_type |-> "field_updated",
      old_data |-> SomeDict([email |-> "ann@example.com", priority |-> "low"]),
      record |-> [id |-> "r2", data |-> [email |-> "ann@example.com", priority |-> "high"]]],
     [workspace_id |-> "w1", entity_id |-> "e2", trigger_type |-> "status_changed",
      old_data |-> SomeDict(OldData),
      record |-> [id |-> "r2", data |-> [status |-> "won", priority |-> "low"]]]}

CreateLife == \E request \in LifeRequests :
    create_automation("w1", request, TRUE)

GenerateLife == \E suggested_automations \in LifeSuggestionLists :
    generate_workspace_with_ai("w2", "e2", suggested_automations)

SetActive == \E i \in 1..Len(automation_rules), is_active \in BOOLEAN :
    /\ automation_rules[i].is_active # is_active
    /\ update_automation(automation_rules[i].workspace_id, automation_rules[i].id,
                         [is_active |-> is_active], TRUE)

DeleteLife == \E i \in 1..Len(automation_rules) :
    delete_automation(automation_rules[i].workspace_id, automation_rules[i].id, TRUE)

DispatchLife == \E event \in LifeEvents, load_ok \in BOOLEAN :
    trigger_automations(event.workspace_id, event.entity_id, event.trigger_type,
                        event.record, event.old_data, load_ok,
                        [i \in 1..Len(LoadAutomations(automation_rules, event.workspace_id,
                                                      event.entity_id, event.trigger_type))
                            |-> AllOk])

NextLife == CreateLife \/ GenerateLife \/ SetActive \/ DeleteLife \/ DispatchLife

SpecLife == Init /\ [][NextLife]_vars

----------------------------------------------------------------------------
(* Input domains of the condition evaluator *)

\* all dicts over the keys of vals, vals[k] being the values key k may hold
DictsOver(vals) ==
    UNION { { d \in [S -> UNION {vals[k] : k \in S}] : \A k \in S : d[k] \in vals[k] }
            : S \in SUBSET (DOMAIN vals) }

TriggerTypes == {"status_changed", "field_updated", "record_created", "record_deleted"}
UnknownTriggerType == "record_archived"

Statuses == {"new", "qualified", "won"}
Priorities == {"low", "high"}

DataDicts == DictsOver([status |-> Statuses, priority |-> Priorities])

TriggerConfigDicts ==
    DictsOver([from_status |-> {"", "new"},
               to_status   |-> {"", "qualified", "won"},
               field_name  |-> {"", "priority"}])

CondInputs ==
    [trigger_type   : TriggerTypes \cup {UnknownTriggerType},
     trigger_config : {NoneDict} \cup {SomeDict(d) : d \in TriggerConfigDicts},
     record_data    : DataDicts,
     old_data       : {NoneDict} \cup {SomeDict(d) : d \in DataDicts}]

InitCond ==
    /\ cond_in \in CondInputs
    /\ cond_out = Pending
    /\ InitStore

Evaluate ==
    /\ cond_out = Pending
    /\ cond_out' = check_trigger_conditions(cond_in.trigger_config, cond_in.record_data,
                                            cond_in.old_data, cond_in.trigger_type)
    /\ UNCHANGED <<cond_in, store>>

NextCond == Evaluate

SpecCond == InitCond /\ [][NextCond]_vars

----------------------------------------------------------------------------
(* Authentication and workspace access control: middleware/auth.py.        *)
(* A request carries an Authorization header, None when it has none.  The  *)
(* FastAPI dependencies run before the handler; an HTTPException raised by *)
(* one of them is the answer and the handler is never entered.             *)

\* the auth service: supabase.auth.get_user(token) knows these tokens
AuthUsers ==
    [tok_owner |-> "u_owner", tok_admin |-> "u_admin", tok_member |-> "u_member",
     tok_viewer |-> "u_viewer", tok_outsider |-> "u_outsider", tok_other |-> "u_other"]

HTTPException(status_code, detail) == [status |-> status_code, detail |-> detail]

\* get_current_user that takes whatever follows the scheme word as the token
get_current_user_AnyScheme(authorization, auth_up) ==
    IF ~Truthy(authorization)
    THEN HTTPException(401, "Not authenticated. Authorization header required.")
    ELSE LET token == Strip(Replace(Replace(authorization, "Bearer ", ""), "Basic ", ""))
         IN  IF ~Truthy(token) THEN HTTPException(401, "Empty bearer token")
             ELSE IF ~auth_up
                 THEN HTTPException(401, "Authentication failed. Please login again.")
             ELSE IF token \notin DOMAIN AuthUsers
                 THEN HTTPException(401, "Invalid or expired token")
             ELSE [status |-> 200, user |-> [id |-> AuthUsers[token]]]

\* auth_up: the auth service answers (otherwise the call raises)
get_current_user(authorization, auth_up) ==
    IF ~Truthy(authorization)
    THEN HTTPException(401, "Not authenticated. Authorization header required.")
    ELSE IF ~StartsWith(authorization, "Bearer ")
    THEN HTTPException(401, "Invalid authentication credentials. Use Bearer token.")
    ELSE LET token == Strip(Replace(authorization, "Bearer ", ""))
         IN  IF ~Truthy(token) THEN HTTPException(401, "Empty bearer token")
             ELSE IF ~auth_up
                 THEN HTTPException(401, "Authentication failed. Please login again.")
             ELSE IF token \notin DOMAIN AuthUsers
                 THEN HTTPException(401, "Invalid or expired token")
             ELSE [status |-> 200, user |-> [id |-> AuthUsers[token]]]

\* role_hierarchy.get(role, 0)
role_hierarchy(role) ==
    CASE role = "owner" -> 3
      [] role = "admin" -> 2
      [] role = "member" -> 1
      [] OTHER -> 0

\* check_workspace_access that stops at membership
check_workspace_access_AnyMember(workspace_id, user_id, required_role, db_ok) ==
    IF ~db_ok THEN HTTPException(500, "Error verifying workspace access")
    ELSE IF workspace_id \notin DOMAIN workspaces
    THEN HTTPException(404, "Workspace not found")
    ELSE IF ~workspaces[workspace_id].is_active
    THEN HTTPException(403, "Workspace is inactive")
    ELSE LET rows == {m \in workspace_members : /\ m.workspace_id = workspace_id
                                                /\ m.user_id = user_id}
         IN  IF rows = {}
             THEN HTTPException(403, "You don't have access to this workspace")
             ELSE [status |-> 200, member |-> CHOOSE m \in rows : TRUE]

\* db_ok: the two table lookups go through (otherwise one of them raises)
check_workspace_access(workspace_id, user_id, required_role, db_ok) ==
    IF ~db_ok THEN HTTPException(500, "Error verifying workspace access")
    ELSE IF workspace_id \notin DOMAIN workspaces
    THEN HTTPException(404, "Workspace not found")
    ELSE IF ~workspaces[workspace_id].is_active
    THEN HTTPException(403, "Workspace is inactive")
    ELSE LET rows == {m \in workspace_members : /\ m.workspace_id = workspace_id
                                                /\ m.user_id = user_id}
         IN  IF rows = {}
             THEN HTTPException(403, "You don't have access to this workspace")
             ELSE LET member == CHOOSE m \in rows : TRUE
                      user_role == member.role
                  IN  IF /\ Truthy(required_role)
                         /\ role_hierarchy(user_role) < role_hierarchy(required_role)
                      THEN HTTPException(403, "Insufficient permissions. "
                                              \o required_role \o " role required.")
                      ELSE [status |-> 200, member |-> member]

require_workspace_access(workspace_id, user, db_ok) ==
    check_workspace_access(workspace_id, user.id, None, db_ok)

require_admin_access(workspace_id, user, db_ok) ==
    check_workspace_access(workspace_id, user.id, "admin", db_ok)

require_workspace_admin(workspace_id, user, db_ok) ==
    require_admin_access(workspace_id, user, db_ok)

\* the answer when a dependency raised: the handler did not run
Refused(op, exception) ==
    /\ response' = [op |-> op, status |-> exception.status, detail |-> exception.detail]
    /\ UNCHANGED <<automation_rules, automation_logs, records, next_id, cond_in, cond_out,
                   crm_records, workspaces, workspace_members, in_flight>>

\* a route declared with user = Depends(get_current_user) and
\* _ = Depends(require_workspace_admin)
AdminRoute(op, authorization, auth_up, workspace_id, access_ok, handler) ==
    LET user == get_current_user(authorization, auth_up)
    IN  IF user.status # 200 THEN Refused(op, user)
        ELSE LET member == require_workspace_admin(workspace_id, user.user, access_ok)
             IN  IF member.status # 200 THEN Refused(op, member)
                 ELSE handler

----------------------------------------------------------------------------
(* The record API: api/records.py.  Its handlers read table crm_entities   *)
(* and write table crm_records; an action is the handler's body, entered   *)
(* once the route's dependencies have let the caller in.  db_ok tells      *)
(* whether the table calls of the request go through.                      *)

MaxRecords == 2     \* rows table crm_records may reach in a run

\* ids the database gives to inserted crm_records rows: the first one free
RecordIds == << "c1", "c2" >>

\* table crm_entities (maintained by the entity API)
crm_entities ==
    [e1 |-> [workspace_id |-> "w1", is_active |-> TRUE,
             fields |-> << [name |-> "status", type |-> "select", required |-> TRUE,
                            options |-> {"new", "won"}],
                           [name |-> "priority", type |-> "select", required |-> FALSE,
                            options |-> {}],
                           [name |-> "email", type |-> "text", required |-> FALSE,
                            options |-> {}] >>],
     e2 |-> [workspace_id |-> "w2", is_active |-> TRUE,
             fields |-> << [name |-> "email", type |-> "text", required |-> FALSE,
                            options |-> {}] >>],
     e3 |-> [workspace_id |-> "w1", is_active |-> FALSE,
             fields |-> << [name |-> "status", type |-> "select", required |-> FALSE,
                            options |-> {"new", "won"}] >>]]

\* the text and select branches; every value of the model is a str
validate_field_value(value, field) ==
    IF field.type \in {"text", "textarea"} THEN [ok |-> TRUE, value |-> value]
    ELSE IF field.type = "select"
    THEN IF field.options = {} THEN [ok |-> TRUE, value |-> value]
         ELSE IF value \notin field.options THEN [ok |-> FALSE]
         ELSE [ok |-> TRUE, value |-> value]
    ELSE [ok |-> TRUE, value |-> value]

\* one round of the loop over fields: acc is [errors, validated]
validate_field(data, field, is_update, acc) ==
    LET required == field.required
        value == Get(data, field.name)
    IN  IF ~is_update /\ required /\ (value = None \/ value = "")
        THEN [acc EXCEPT !.errors = TRUE]
        ELSE IF value = None /\ (~required \/ is_update) THEN acc
        ELSE IF value = "" /\ ~required
        THEN [acc EXCEPT !.validated = DictSet(acc.validated, field.name, value)]
        ELSE LET v == validate_field_value(value, field)
             IN  IF v.ok
                 THEN [acc EXCEPT !.validated = DictSet(acc.validated, field.name, v.value)]
                 ELSE [acc EXCEPT !.errors = TRUE]

RECURSIVE validate_fields(_, _, _, _)
validate_fields(data, fields, is_update, acc) ==
    IF fields = << >> THEN acc
    ELSE validate_fields(data, Tail(fields), is_update,
                         validate_field(data, Head(fields), is_update, acc))

\* [errors |-> TRUE] stands for the HTTPException 400 it raises
validate_record_data(data, fields, is_update) ==
    validate_fields(data, fields, is_update, [errors |-> FALSE, validated |-> EmptyDict])

\* {**a, **b}
DictMerge(a, b) == [k \in (DOMAIN a) \cup (DOMAIN b) |-> IF k \in DOMAIN b THEN b[k] ELSE a[k]]

\* the row with this id, workspace and entity, if table crm_records holds it
RecordFound(record_id, workspace_id, entity_id) ==
    /\ record_id \in DOMAIN crm_records
    /\ crm_records[record_id].workspace_id = workspace_id
    /\ crm_records[record_id].entity_id = entity_id

EntityFound(entity_id, workspace_id) ==
    /\ entity_id \in DOMAIN crm_entities
    /\ crm_entities[entity_id].workspace_id = workspace_id

RecordsUnchanged ==
    UNCHANGED <<automation_rules, automation_logs, records, next_id, cond_in, cond_out,
                workspaces, workspace_members, in_flight>>

create_record(workspace_id, entity_id, record, db_ok) ==
    /\ Cardinality(DOMAIN crm_records) < MaxRecords
    /\ RecordsUnchanged
    /\ IF ~db_ok
       THEN /\ response' = [op |-> "create_record", status |-> 500]
            /\ UNCHANGED crm_records
       ELSE IF ~(EntityFound(entity_id, workspace_id) /\ crm_entities[entity_id].is_active)
       THEN /\ response' = [op |-> "create_record", status |-> 404]
            /\ UNCHANGED crm_records
       ELSE LET v == validate_record_data(record.data, crm_entities[entity_id].fields, FALSE)
            IN  IF v.errors
                THEN /\ response' = [op |-> "create_record", status |-> 400]
                     /\ UNCHANGED crm_records
                ELSE LET free == {k \in 1..Len(RecordIds) :
                                      RecordIds[k] \notin DOMAIN crm_records}
                         id == RecordIds[CHOOSE k \in free : \A j \in free : k <= j]
                         record_data == [workspace_id |-> workspace_id,
                                         entity_id |-> entity_id,
                                         data |-> v.validated,
                                         is_archived |-> FALSE]
                     IN  /\ crm_records' = [r \in (DOMAIN crm_records) \cup {id} |->
                                               IF r = id THEN record_data
                                               ELSE crm_records[r]]
                         /\ response' = [op |-> "create_record", status |-> 200,
                                         workspace_id |-> workspace_id,
                                         entity_id |-> entity_id,
                                         record_id |-> id, record |-> record_data]

\* record holds data, and is_archived when the body supplies it
update_record(workspace_id, entity_id, record_id, record, db_ok) ==
    /\ RecordsUnchanged
    /\ IF ~db_ok
       THEN /\ response' = [op |-> "update_record", status |-> 500]
            /\ UNCHANGED crm_records
       ELSE IF ~RecordFound(record_id, workspace_id, entity_id)
       THEN /\ response' = [op |-> "update_record", status |-> 404]
            /\ UNCHANGED crm_records
       ELSE IF ~EntityFound(entity_id, workspace_id)
       THEN /\ response' = [op |-> "update_record", status |-> 404]
            /\ UNCHANGED crm_records
       ELSE LET existing_record == crm_records[record_id]
                v == validate_record_data(record.data, crm_entities[entity_id].fields, TRUE)
            IN  IF v.errors
                THEN /\ response' = [op |-> "update_record", status |-> 400]
                     /\ UNCHANGED crm_records
                ELSE LET updated_data == DictMerge(existing_record.data, v.validated)
                         updated_record ==
                             [existing_record EXCEPT
                                 !.data = updated_data,
                                 !.is_archived = IF "is_archived" \in DOMAIN record
                                                 THEN record.is_archived
                                                 ELSE existing_record.is_archived]
                     IN  /\ crm_records' = [crm_records EXCEPT ![record_id] = updated_record]
                         /\ response' = [op |-> "update_record", status |-> 200,
                                         workspace_id |-> workspace_id,
                                         entity_id |-> entity_id,
                                         record_id |-> record_id,
                                         old_data |-> existing_record.data,
                                         record |-> updated_record]

\* soft delete: the row is archived
delete_record(workspace_id, entity_id, record_id, db_ok) ==
    /\ RecordsUnchanged
    /\ IF ~db_ok
       THEN /\ response' = [op |-> "delete_record", status |-> 500]
            /\ UNCHANGED crm_records
       ELSE IF ~RecordFound(record_id, workspace_id, entity_id)
       THEN /\ response' = [op |-> "delete_record", status |-> 404]
            /\ UNCHANGED crm_records
       ELSE /\ crm_records' = [crm_records EXCEPT ![record_id].is_archived = TRUE]
            /\ response' = [op |-> "delete_record", status |-> 200,
                            workspace_id |-> workspace_id, entity_id |-> entity_id,
                            record_id |-> record_id, record |-> crm_records[record_id]]

delete_record_permanent(workspace_id, entity_id, record_id, db_ok) ==
    /\ RecordsUnchanged
    /\ IF ~db_ok
       THEN /\ response' = [op |-> "delete_record_permanent", status |-> 500]
            /\ UNCHANGED crm_records
       ELSE IF ~RecordFound(record_id, workspace_id, entity_id)
       THEN /\ response' = [op |-> "delete_record_permanent", status |-> 404]
            /\ UNCHANGED crm_records
       ELSE /\ crm_records' = [r \in (DOMAIN crm_records) \ {record_id} |-> crm_records[r]]
            /\ response' = [op |-> "delete_record_permanent", status |-> 200,
                            workspace_id |-> workspace_id, entity_id |-> entity_id,
                            record_id |-> record_id, record |-> crm_records[record_id]]

\* request holds record_ids and data; a record that is not found is skipped
bulk_update_records(workspace_id, entity_id, request, db_ok) ==
    /\ RecordsUnchanged
    /\ IF ~db_ok
       THEN /\ response' = [op |-> "bulk_update_records", status |-> 500]
            /\ UNCHANGED crm_records
       ELSE IF ~EntityFound(entity_id, workspace_id)
       THEN /\ response' = [op |-> "bulk_update_records", status |-> 404]
            /\ UNCHANGED crm_records
       ELSE LET v == validate_record_data(request.data, crm_entities[entity_id].fields, TRUE)
                found == {r \in request.record_ids : RecordFound(r, workspace_id, entity_id)}
            IN  IF v.errors
                THEN /\ response' = [op |-> "bulk_update_records", status |-> 400]
                     /\ UNCHANGED crm_records
                ELSE /\ crm_records' =
                            [r \in DOMAIN crm_records |->
                                IF r \in found
                                THEN [crm_records[r] EXCEPT
                                         !.data = DictMerge(crm_records[r].data, v.validated)]
                                ELSE crm_records[r]]
                     /\ response' = [op |-> "bulk_update_records", status |-> 200,
                                     workspace_id |-> workspace_id,
                                     entity_id |-> entity_id,
                                     updated |-> found,
                                     updated_count |-> Cardinality(found),
                                     total_requested |-> Cardinality(request.record_ids)]

\* every update is tried and a failing one is logged and passed over, so the
\* answer counts the requested ids whatever happened to them
bulk_delete_records(workspace_id, entity_id, request, db_ok) ==
    /\ RecordsUnchanged
    /\ LET found == {r \in request.record_ids : RecordFound(r, workspace_id, entity_id)}
       IN  /\ crm_records' =
                  [r \in DOMAIN crm_records |->
                      IF db_ok /\ r \in found
                      THEN [crm_records[r] EXCEPT !.is_archived = TRUE]
                      ELSE crm_records[r]]
           /\ response' = [op |-> "bulk_delete_records", status |-> 200,
                           workspace_id |-> workspace_id, entity_id |-> entity_id,
                           archived |-> IF db_ok THEN found ELSE {},
                           archived_count |-> Cardinality(request.record_ids)]

----------------------------------------------------------------------------
(* The record API next to the rule store: active rules on entity e1 for    *)
(* the created, updated and deleted triggers are stored through the rule   *)
(* API, and records of e1 are created, updated, archived and deleted       *)
(* through the record API.                                                 *)

RecordTriggers == {"record_created", "field_updated", "record_deleted"}

RecordRuleRequests ==
    {[name |-> "rule", entity_id |-> "e1", trigger_type |-> trigger_type,
      trigger_config |-> EmptyDict, action_type |-> "create_task",
      action_config |-> [title |-> "Follow up"], is_active |-> TRUE] :
        trigger_type \in RecordTriggers}

\* RecordCreate bodies: accepted, refused for a value outside the options,
\* refused for the missing required field
RecordCreates ==
    {[data |-> [status |-> "new"]],
     [data |-> [status |-> "bogus"]],
     [data |-> [priority |-> "low"]]}

\* RecordUpdate bodies
RecordUpdates ==
    {[data |-> [status |-> "won"]],
     [data |-> [status |-> "bogus"]],
     [data |-> EmptyDict, is_archived |-> TRUE]}

BulkIds == {{"c1"}, {"c1", "c2"}}

CreateRecordRule == \E request \in RecordRuleRequests :
    create_automation("w1", request, TRUE)

CreateRecord == \E entity_id \in {"e1", "e3"}, record \in RecordCreates, db_ok \in BOOLEAN :
    create_record("w1", entity_id, record, db_ok)

UpdateRecord == \E record_id \in {"c1", "c2"}, record \in RecordUpdates, db_ok \in BOOLEAN :
    update_record("w1", "e1", record_id, record, db_ok)

DeleteRecord == \E record_id \in {"c1", "c2"}, db_ok \in BOOLEAN :
    delete_record("w1", "e1", record_id, db_ok)

DeleteRecordPermanent == \E record_id \in {"c1", "c2"}, db_ok \in BOOLEAN :
    delete_record_permanent("w1", "e1", record_id, db_ok)

BulkUpdateRecords == \E record_ids \in BulkIds, db_ok \in BOOLEAN :
    bulk_update_records("w1", "e1", [record_ids |-> record_ids,
                                     data |-> [priority |-> "high"]], db_ok)

BulkDeleteRecords == \E record_ids \in BulkIds, db_ok \in BOOLEAN :
    bulk_delete_records("w1", "e1", [record_ids |-> record_ids], db_ok)

NextRecords ==
    \/ CreateRecordRule
    \/ CreateRecord
    \/ UpdateRecord
    \/ DeleteRecord
    \/ DeleteRecordPermanent
    \/ BulkUpdateRecords
    \/ BulkDeleteRecords

SpecRecords == Init /\ [][NextRecords]_vars

----------------------------------------------------------------------------
(* The rule API behind its dependencies: the four admin routes of          *)
(* api/automations.py, called with and without credentials, by owners,     *)
(* admins, plain members, a member of unknown role and a stranger, for     *)
(* workspaces that are active, inactive or missing.                        *)

route_create_automation(authorization, auth_up, access_ok, workspace_id, request) ==
    AdminRoute("create_automation", authorization, auth_up, workspace_id, access_ok,
               create_automation(workspace_id, request, TRUE))

route_update_automation(authorization, auth_up, access_ok, workspace_id, automation_id, request) ==
    AdminRoute("update_automation", authorization, auth_up, workspace_id, access_ok,
               update_automation(workspace_id, automation_id, request, TRUE))

route_delete_automation(authorization, auth_up, access_ok, workspace_id, automation_id) ==
    AdminRoute("delete_automation", authorization, auth_up, workspace_id, access_ok,
               delete_automation(workspace_id, automation_id, TRUE))

route_test_automation(authorization, auth_up, access_ok, workspace_id, automation_id, record_id) ==
    AdminRoute("test_automation", authorization, auth_up, workspace_id, access_ok,
               test_automation(workspace_id, automation_id, record_id, AllOk))

\* who calls: the header sent, whether the auth service answers and whether
\* the access lookups go through
Caller(authorization, auth_up, access_ok) ==
    [authorization |-> authorization, auth_up |-> auth_up, access_ok |-> access_ok]

AuthCallers ==
    {Caller(authorization, TRUE, TRUE) :
        authorization \in {None, "Bearer expired", "Bearer tok_owner", "Bearer tok_admin",
                           "Bearer tok_member", "Bearer tok_viewer",
                           "Bearer tok_outsider", "Bearer tok_other"}}
    \cup {Caller("Bearer tok_owner", FALSE, TRUE), Caller("Bearer tok_owner", TRUE, FALSE),
          Caller("Bearer tok_member", TRUE, FALSE)}

\* workspace_id path parameters: active, of other people, inactive, missing
PathWorkspaces == {"w1", "w2", "w3", "w9"}

AuthUpdate == [is_active |-> FALSE]

CreateAuth(caller, workspace_id) ==
    route_create_automation(caller.authorization, caller.auth_up, caller.access_ok,
                            workspace_id, TaskRule)

UpdateAuth(caller, workspace_id) ==
    route_update_automation(caller.authorization, caller.auth_up, caller.access_ok,
                            workspace_id, 1, AuthUpdate)

DeleteAuth(caller, workspace_id) ==
    route_delete_automation(caller.authorization, caller.auth_up, caller.access_ok,
                            workspace_id, 1)

TestAuth(caller, workspace_id) ==
    route_test_automation(caller.authorization, caller.auth_up, caller.access_ok,
                          workspace_id, 1, "r1")

CreateRouted == \E caller \in AuthCallers, workspace_id \in PathWorkspaces :
    CreateAuth(caller, workspace_id)

UpdateRouted == \E caller \in AuthCallers, workspace_id \in PathWorkspaces :
    UpdateAuth(caller, workspace_id)

DeleteRouted == \E caller \in AuthCallers, workspace_id \in PathWorkspaces :
    DeleteAuth(caller, workspace_id)

TestRouted == \E caller \in AuthCallers, workspace_id \in PathWorkspaces :
    TestAuth(caller, workspace_id)

NextAuth == CreateRouted \/ UpdateRouted \/ DeleteRouted \/ TestRouted

SpecAuth == Init /\ [][NextAuth]_vars

----------------------------------------------------------------------------
(* The workspace endpoints that ask for authentication only:               *)
(* api/workspaces.py, list_user_workspaces and create_workspace_manual.    *)

\* ids the database gives to inserted workspaces rows: the first one free
WorkspaceIds == << "w4", "w5" >>

\* request is the CreateWorkspaceRequest body after pydantic validation
create_workspace_manual(request, user, db_ok) ==
    /\ UNCHANGED <<automation_rules, automation_logs, records, next_id, cond_in, cond_out,
                   crm_records, workspace_members, in_flight>>
    /\ IF ~db_ok
       THEN /\ response' = [op |-> "create_workspace_manual", status |-> 500]
            /\ UNCHANGED workspaces
       ELSE IF \E w \in DOMAIN workspaces : workspaces[w].slug = request.slug
       THEN /\ response' = [op |-> "create_workspace_manual", status |-> 400]
            /\ UNCHANGED workspaces
       ELSE LET free == {k \in 1..Len(WorkspaceIds) :
                             WorkspaceIds[k] \notin DOMAIN workspaces}
                id == WorkspaceIds[CHOOSE k \in free : \A j \in free : k <= j]
                workspace_data == [slug |-> request.slug, owner_id |-> user.id,
                                   is_active |-> TRUE]
            IN  /\ workspaces' = [w \in (DOMAIN workspaces) \cup {id} |->
                                     IF w = id THEN workspace_data ELSE workspaces[w]]
                /\ response' = [op |-> "create_workspace_manual", status |-> 200,
                                workspace |-> [id |-> id, slug |-> request.slug,
                                               owner_id |-> user.id]]

\* the caller's workspace_members rows joined with their workspaces
list_user_workspaces(user, db_ok) ==
    /\ UNCHANGED <<automation_rules, automation_logs, records, next_id, cond_in, cond_out,
                   crm_records, workspaces, workspace_members, in_flight>>
    /\ IF ~db_ok
       THEN response' = [op |-> "list_user_workspaces", status |-> 500]
       ELSE LET result == {m \in workspace_members : m.user_id = user.id}
                listed == {[id |-> m.workspace_id, slug |-> workspaces[m.workspace_id].slug,
                            user_role |-> m.role] : m \in result}
            IN  response' = [op |-> "list_user_workspaces", status |-> 200,
                             workspaces |-> listed, total |-> Cardinality(listed)]

\* the routes are declared with user = Depends(get_current_user)
route_create_workspace_manual(authorization, auth_up, request, db_ok) ==
    LET user == get_current_user(authorization, auth_up)
    IN  IF user.status # 200 THEN Refused("create_workspace_manual", user)
        ELSE create_workspace_manual(request, user.user, db_ok)

route_list_user_workspaces(authorization, auth_up, db_ok) ==
    LET user == get_current_user(authorization, auth_up)
    IN  IF user.status # 200 THEN Refused("list_user_workspaces", user)
        ELSE list_user_workspaces(user.user, db_ok)

\* Authorization headers: none, empty, other schemes, no token, blank token,
\* tokens the auth service does not know, tokens it knows
SessionHeaders ==
    {None, "", "Basic tok_owner", "bearer tok_owner", "Bearer", "Bearer ", "Bearer   ",
     "Bearer expired", "Bearer tok_owner", "Bearer tok_outsider", "Bearer  tok_admin ",
     "Bearer Bearer tok_member"}

SessionCallers ==
    {[authorization |-> authorization, auth_up |-> TRUE] : authorization \in SessionHeaders}
    \cup {[authorization |-> "Bearer tok_owner", auth_up |-> FALSE],
          [authorization |-> "Bearer expired", auth_up |-> FALSE]}

WorkspaceRequests == {[slug |-> slug] : slug \in {"acme", "new-crm", "side-crm"}}

ListSession(caller) == \E db_ok \in BOOLEAN :
    route_list_user_workspaces(caller.authorization, caller.auth_up, db_ok)

CreateSession(caller) == \E request \in WorkspaceRequests, db_ok \in BOOLEAN :
    route_create_workspace_manual(caller.authorization, caller.auth_up, request, db_ok)

ListWorkspaces == \E caller \in SessionCallers : ListSession(caller)

CreateWorkspace == \E caller \in SessionCallers : CreateSession(caller)

NextSession == ListWorkspaces \/ CreateWorkspace

SpecSession == Init /\ [][NextSession]_vars

----------------------------------------------------------------------------
(* The engine with rules that write: rules of the four action types are    *)
(* created through the rule API on entity e1, two of them update_field     *)
(* rules for different fields; events for record r1 are dispatched with    *)
(* the data the caller read, and rules are run through test_automation.    *)

FieldRule(trigger_type, trigger_config, action_type, action_config) ==
    [name |-> "rule", entity_id |-> "e1", trigger_type |-> trigger_type,
     trigger_config |-> trigger_config,
     action_type |-> action_type, action_config |-> action_config,
     is_active |-> TRUE]

SetPriority ==
    FieldRule("record_created", EmptyDict, "update_field",
              [field_name |-> "priority", new_value |-> "high"])

SetStage ==
    FieldRule("record_created", EmptyDict, "update_field",
              [field_name |-> "stage", new_value |-> "closing"])

FieldRequests ==
    {SetPriority, SetStage,
     FieldRule("record_created", EmptyDict, "webhook", [url |-> "https://hook.example"]),
     FieldRule("record_created", EmptyDict, "send_email",
               [subject |-> "Deal {{status}}", body |-> "Hello",
                to_email |-> "ops@example.com"]),
     FieldRule("status_changed", [to_status |-> "won"], "create_task",
               [title |-> "Follow up {{status}}"])}

\* r1 was created, or went from status new to qualified
FieldEvents ==
    {[trigger_type |-> "record_created", old_data |-> NoneDict,
      record |-> [id |-> "r1", data |-> OldData]],
     [trigger_type |-> "status_changed", old_data |-> SomeDict(OldData),
      record |-> [id |-> "r1", data |-> [status |-> "qualified", priority |-> "low"]]]}

\* what can go wrong while this rule executes: the webhook call or the
\* records update
FieldEnvsFor(automation) ==
    {AllOk}
    \cup (IF automation.action_type = "webhook"
          THEN {[AllOk EXCEPT !.http = "500"]} ELSE {})
    \cup (IF automation.action_type = "update_field"
          THEN {[AllOk EXCEPT !.db_ok = FALSE]} ELSE {})

CreateField == \E request \in FieldRequests :
    create_automation("w1", request, TRUE)

DispatchField ==
    \E event \in FieldEvents :
        LET automations == LoadAutomations(automation_rules, "w1", "e1", event.trigger_type)
        IN  \E envs \in {e \in SeqsOfLen(Envs, Len(automations)) :
                            \A i \in 1..Len(automations) :
                                e[i] \in FieldEnvsFor(automations[i])} :
                trigger_automations("w1", "e1", event.trigger_type, event.record,
                                    event.old_data, TRUE, envs)

TestField == \E i \in 1..Len(automation_rules) :
    \E env \in FieldEnvsFor(automation_rules[i]) :
        test_automation("w1", automation_rules[i].id, "r1", env)

NextField == CreateField \/ DispatchField \/ TestField

SpecField == Init /\ [][NextField]_vars


----------------------------------------------------------------------------
(* The execution log under every kind of request that can reach it: rules  *)
(* are created, switched on and off and deleted, a status change of record *)
(* r1 is dispatched and rules are run directly on r1, with the webhook     *)
(* answering or failing.                                                   *)

LogRequests == {TaskRule, WebhookRule}

LogEnvs == {AllOk, [AllOk EXCEPT !.http = "500"]}

CreateLog == \E request \in LogRequests :
    create_automation("w1", request, TRUE)

DispatchLog == \E envs \in [1..Len(LoadAutomations(automation_rules, "w1", "e1", "status_changed")) -> LogEnvs] :
    trigger_automations("w1", "e1", "status_changed",
                        [id |-> "r1", data |-> [status |-> "won", priority |-> "low"]],
                        SomeDict(OldData), TRUE, envs)

TestLog == \E i \in 1..Len(automation_rules), env \in LogEnvs :
    test_automation(automation_rules[i].workspace_id, automation_rules[i].id, "r1", env)

NextLog == CreateLog \/ SetActive \/ DeleteLife \/ DispatchLog \/ TestLog

SpecLog == Init /\ [][NextLog]_vars


----------------------------------------------------------------------------
(* Template rendering alone.  A template is put together from pieces, text *)
(* without braces and {{name}} tokens, or is a text with braces that form  *)
(* no token; it is rendered for a record whose data holds the name, holds  *)
(* it with a null value, or does not hold it.                              *)

MaxPieces == 3

PlainTexts == {"Hello ", "!"}

Identifiers == {"full_name", "missing", "id", "created_at"}

\* braces that make no {{name}} token
BrokenTexts == {"{{", "{{}}", "Hello {{full_name}", "full_name}}", "{ {full_name} }"}

Pieces == {Lit(text) : text \in PlainTexts} \cup {Var(name) : name \in Identifiers}

PieceLists ==
    UNION {[1..n -> Pieces] : n \in 0..MaxPieces}
    \cup {<< Lit(text) >> : text \in BrokenTexts}

\* the template the pieces spell
RECURSIVE TemplateOf(_)
TemplateOf(pieces) ==
    IF pieces = << >> THEN ""
    ELSE (IF "lit" \in DOMAIN Head(pieces) THEN Head(pieces).lit
          ELSE "{{" \o Head(pieces).var \o "}}")
         \o TemplateOf(Tail(pieces))

RenderRecords ==
    {[id |-> "r1", created_at |-> "2024-05-01", data |-> [full_name |-> "Ann"]],
     [id |-> "r2", data |-> [full_name |-> None, id |-> "x9"]],
     [id |-> "r3", created_at |-> None, data |-> EmptyDict]}

RenderInputs ==
    {[pieces |-> pieces, template |-> TemplateOf(pieces), record |-> record]
        : pieces \in PieceLists, record \in RenderRecords}

InitRender ==
    /\ cond_in \in RenderInputs
    /\ cond_out = Pending
    /\ InitStore

Render ==
    /\ cond_out = Pending
    /\ cond_out' = Returned(_replace_template_variables(cond_in.template, cond_in.record))
    /\ UNCHANGED <<cond_in, store>>

NextRender == Render

SpecRender == InitRender /\ [][NextRender]_vars


----------------------------------------------------------------------------
(* Member management: api/workspaces.py.  A route's access dependency     *)
(* (require_admin_access, require_owner_access) runs before the handler;  *)
(* the request models refuse a role other than admin and member (422)     *)
(* before either.  db_ok tells whether the handler's table calls go       *)
(* through.                                                                *)

require_owner_access(workspace_id, user, db_ok) ==
    check_workspace_access(workspace_id, user.id, "owner", db_ok)

\* table user_profiles
user_profiles ==
    {[id |-> "u_owner", email |-> "owner@example.com"],
     [id |-> "u_admin", email |-> "admin@example.com"],
     [id |-> "u_outsider", email |-> "outsider@example.com"]}

\* InviteRequest.role: Literal["admin", "member"];
\* UpdateMemberRoleRequest.role: pattern ^(admin|member)$
AssignableRoles == {"admin", "member"}

MembersOnly(op, status, detail) ==
    /\ response' = [op |-> op, status |-> status, detail |-> detail]
    /\ UNCHANGED <<automation_rules, automation_logs, records, next_id, cond_in, cond_out,
                   crm_records, workspaces, in_flight>>

\* the rows of table workspace_members for this workspace and user
MemberRows(workspace_id, user_id) ==
    {m \in workspace_members : m.workspace_id = workspace_id /\ m.user_id = user_id}

invite_member_to_workspace(workspace_id, invite, current_user, db_ok) ==
    LET op == "invite_member_to_workspace"
        user_result == {u \in user_profiles : u.email = invite.email}
    IN  IF ~db_ok
        THEN MembersOnly(op, 500, "Failed to invite member") /\ UNCHANGED workspace_members
        ELSE IF user_result = {}
        THEN MembersOnly(op, 200, "invitation_sent") /\ UNCHANGED workspace_members
        ELSE LET invited_user == CHOOSE u \in user_result : TRUE
             IN  IF MemberRows(workspace_id, invited_user.id) # {}
                 THEN MembersOnly(op, 200, "already_member") /\ UNCHANGED workspace_members
                 ELSE /\ MembersOnly(op, 200, "added")
                      /\ workspace_members' =
                            workspace_members \cup {[workspace_id |-> workspace_id,
                                                     user_id |-> invited_user.id,
                                                     role |-> invite.role]}

\* update_member_role without the owner check
update_member_role_AnyTarget(workspace_id, user_id, request, db_ok) ==
    LET op == "update_member_role"
        target_result == MemberRows(workspace_id, user_id)
    IN  IF ~db_ok
        THEN MembersOnly(op, 500, "Failed to update member role")
             /\ UNCHANGED workspace_members
        ELSE IF target_result = {}
        THEN MembersOnly(op, 404, "Member not found") /\ UNCHANGED workspace_members
        ELSE /\ MembersOnly(op, 200, "updated")
             /\ workspace_members' =
                   {IF m \in target_result THEN [m EXCEPT !.role = request.role] ELSE m
                       : m \in workspace_members}

update_member_role(workspace_id, user_id, request, db_ok) ==
    LET op == "update_member_role"
        target_result == MemberRows(workspace_id, user_id)
    IN  IF ~db_ok
        THEN MembersOnly(op, 500, "Failed to update member role")
             /\ UNCHANGED workspace_members
        ELSE IF target_result = {}
        THEN MembersOnly(op, 404, "Member not found") /\ UNCHANGED workspace_members
        ELSE IF (CHOOSE m \in target_result : TRUE).role = "owner"
        THEN MembersOnly(op, 400, "Cannot change owner role. Use transfer ownership instead.")
             /\ UNCHANGED workspace_members
        ELSE /\ MembersOnly(op, 200, "updated")
             /\ workspace_members' =
                   {IF m \in target_result THEN [m EXCEPT !.role = request.role] ELSE m
                       : m \in workspace_members}

remove_member_from_workspace(workspace_id, user_id, db_ok) ==
    LET op == "remove_member_from_workspace"
        target_result == MemberRows(workspace_id, user_id)
    IN  IF ~db_ok
        THEN MembersOnly(op, 500, "Failed to remove member") /\ UNCHANGED workspace_members
        ELSE IF target_result = {}
        THEN MembersOnly(op, 404, "Member not found") /\ UNCHANGED workspace_members
        ELSE IF (CHOOSE m \in target_result : TRUE).role = "owner"
        THEN MembersOnly(op, 400, "Cannot remove owner. Transfer ownership first.")
             /\ UNCHANGED workspace_members
        ELSE /\ MembersOnly(op, 200, "removed")
             /\ workspace_members' = workspace_members \ target_result

\* the routes: request validation, then the access dependency, then the handler
route_invite_member_to_workspace(user, workspace_id, invite, db_ok) ==
    LET op == "invite_member_to_workspace"
        member == require_admin_access(workspace_id, user, TRUE)
    IN  IF invite.role \notin AssignableRoles
        THEN MembersOnly(op, 422, "role") /\ UNCHANGED workspace_members
        ELSE IF member.status # 200
        THEN MembersOnly(op, member.status, member.detail) /\ UNCHANGED workspace_members
        ELSE invite_member_to_workspace(workspace_id, invite, user, db_ok)

route_update_member_role(user, workspace_id, user_id, request, db_ok) ==
    LET op == "update_member_role"
        member == require_owner_access(workspace_id, user, TRUE)
    IN  IF request.role \notin AssignableRoles
        THEN MembersOnly(op, 422, "role") /\ UNCHANGED workspace_members
        ELSE IF member.status # 200
        THEN MembersOnly(op, member.status, member.detail) /\ UNCHANGED workspace_members
        ELSE update_member_role(workspace_id, user_id, request, db_ok)

route_remove_member_from_workspace(user, workspace_id, user_id, db_ok) ==
    LET op == "remove_member_from_workspace"
        member == require_admin_access(workspace_id, user, TRUE)
    IN  IF member.status # 200
        THEN MembersOnly(op, member.status, member.detail) /\ UNCHANGED workspace_members
        ELSE remove_member_from_workspace(workspace_id, user_id, db_ok)

\* who asks, for which workspace, about whom
MemberCallers == {[id |-> "u_owner"], [id |-> "u_admin"], [id |-> "u_other"]}
MemberWorkspaces == {"w1", "w2"}
MemberTargets == {"u_owner", "u_admin", "u_outsider", "u_other"}
InviteEmails == {"owner@example.com", "outsider@example.com", "nobody@example.com"}

\* the handler's table calls fail in requests of the owner for workspace w1
MemberDbOk(user, workspace_id) ==
    IF user.id = "u_owner" /\ workspace_id = "w1" THEN BOOLEAN ELSE {TRUE}
RequestedRoles == {"admin", "member", "owner"}

InviteMember ==
    \E user \in MemberCallers, workspace_id \in MemberWorkspaces, email \in InviteEmails,
       role \in RequestedRoles :
      \E db_ok \in MemberDbOk(user, workspace_id) :
        route_invite_member_to_workspace(user, workspace_id,
                                         [email |-> email, role |-> role], db_ok)

UpdateMemberRole ==
    \E user \in MemberCallers, workspace_id \in MemberWorkspaces, user_id \in MemberTargets,
       role \in RequestedRoles :
      \E db_ok \in MemberDbOk(user, workspace_id) :
        route_update_member_role(user, workspace_id, user_id, [role |-> role], db_ok)

RemoveMember ==
    \E user \in MemberCallers, workspace_id \in MemberWorkspaces, user_id \in MemberTargets :
      \E db_ok \in MemberDbOk(user, workspace_id) :
        route_remove_member_from_workspace(user, workspace_id, user_id, db_ok)

NextMembers == InviteMember \/ UpdateMemberRole \/ RemoveMember

SpecMembers == Init /\ [][NextMembers]_vars


----------------------------------------------------------------------------
(* Trigger events handled by two server processes.  The caller of          *)
(* trigger_automations passes the record as it read it; between that read  *)
(* and the writes of the call another process may have written the row.    *)
(* A process first takes up an event, holding the record as stored at that *)
(* moment, and later runs trigger_automations on what it holds.            *)

SetStageOnStatus ==
    FieldRule("status_changed", EmptyDict, "update_field",
              [field_name |-> "stage", new_value |-> "closing"])

RaceRequests == {SetPriority, SetStageOnStatus}

\* a record was created; its status moved on from "lead"
RaceEvents ==
    {[trigger_type |-> "record_created", old_data |-> NoneDict],
     [trigger_type |-> "status_changed", old_data |-> SomeDict([status |-> "lead"])]}

CreateRace == \E request \in RaceRequests :
    create_automation("w1", request, TRUE)

\* the dispatcher's caller reads record r1 and prepares the call
EventArrives == \E p \in Processes, event \in RaceEvents :
    /\ in_flight[p] = Idle
    /\ in_flight' = [in_flight EXCEPT ![p] =
                        [workspace_id |-> "w1", entity_id |-> "e1",
                         trigger_type |-> event.trigger_type,
                         record |-> [id |-> "r1", data |-> records["r1"].data],
                         old_data |-> event.old_data]]
    /\ UNCHANGED <<automation_rules, automation_logs, records, next_id, response, cond_in,
                   cond_out, crm_records, workspaces, workspace_members>>

\* trigger_automations runs on the call a process holds
EventDispatched == \E p \in Processes :
    /\ in_flight[p] # Idle
    /\ LET call == in_flight[p]
           automations == LoadAutomations(automation_rules, call.workspace_id,
                                          call.entity_id, call.trigger_type)
       IN  /\ Len(automation_logs) + Len(automations) <= MaxLogs
           /\ \E envs \in {e \in SeqsOfLen(Envs, Len(automations)) :
                              \A i \in 1..Len(automations) :
                                  e[i] \in FieldEnvsFor(automations[i])} :
                 LET acc == dispatch_loop(automations, envs, call.record, call.old_data,
                                          call.trigger_type,
                                          [raised |-> FALSE, results |-> << >>,
                                           events |-> << >>, logs |-> automation_logs,
                                           records |-> records])
                 IN  /\ response' = [op |-> "trigger_automations", raised |-> acc.raised,
                                     call |-> call, load_ok |-> TRUE,
                                     record_id |-> call.record.id,
                                     loaded |-> [k \in 1..Len(automations) |->
                                                    automations[k].id],
                                     results |-> acc.results, events |-> acc.events]
                     /\ automation_logs' = acc.logs
                     /\ records' = acc.records
    /\ in_flight' = [in_flight EXCEPT ![p] = Idle]
    /\ UNCHANGED <<automation_rules, next_id, cond_in, cond_out, crm_records, workspaces,
                   workspace_members>>

NextRace == CreateRace \/ EventArrives \/ EventDispatched

SpecRace == Init /\ [][NextRace]_vars


----------------------------------------------------------------------------
(* The read requests of the rule API, and the rule API asked under two     *)
(* workspaces for rules of either.                                         *)

ReadOnly ==
    UNCHANGED <<automation_rules, automation_logs, records, next_id, cond_in, cond_out,
                crm_records, workspaces, workspace_members, in_flight>>

get_automation(workspace_id, automation_id, db_ok) ==
    /\ ReadOnly
    /\ LET i == RuleIndex(automation_rules, automation_id, workspace_id)
       IN  IF ~db_ok
           THEN response' = [op |-> "get_automation", status |-> 500]
           ELSE IF i = 0
           THEN response' = [op |-> "get_automation", status |-> 404]
           ELSE response' = [op |-> "get_automation", status |-> 200,
                             automation |-> automation_rules[i]]

\* the rows of the rule, latest first (order by executed_at desc), at most limit
get_automation_logs(workspace_id, automation_id, limit, db_ok) ==
    /\ ReadOnly
    /\ LET i == RuleIndex(automation_rules, automation_id, workspace_id)
           rows == SelectSeq(automation_logs, LAMBDA log : log.automation_id = automation_id)
           latest_first == [k \in 1..Len(rows) |-> rows[Len(rows) + 1 - k]]
           logs == SubSeq(latest_first, 1, IF limit < Len(rows) THEN limit ELSE Len(rows))
       IN  IF ~db_ok
           THEN response' = [op |-> "get_automation_logs", status |-> 500]
           ELSE IF i = 0
           THEN response' = [op |-> "get_automation_logs", status |-> 404]
           ELSE response' = [op |-> "get_automation_logs", status |-> 200,
                             logs |-> logs, total |-> Len(logs)]

\* create requests: an update_field rule for entity e1 (of workspace w1), a
\* task rule for entity e2 (of workspace w2)
TenantRequests ==
    {SetPriority, [TaskRule EXCEPT !.entity_id = "e2"]}

\* update requests: a field, or none
TenantUpdates == {[is_active |-> FALSE], EmptyDict}

LogLimits == {1}

CreateTenant == \E workspace_id \in Workspaces, request \in TenantRequests :
    create_automation(workspace_id, request, TRUE)

GetTenant == \E workspace_id \in Workspaces, automation_id \in 1..MaxRules :
    get_automation(workspace_id, automation_id, TRUE)

UpdateTenant ==
    \E workspace_id \in Workspaces, automation_id \in 1..MaxRules, request \in TenantUpdates :
        update_automation(workspace_id, automation_id, request, TRUE)

DeleteTenant == \E workspace_id \in Workspaces, automation_id \in 1..MaxRules :
    delete_automation(workspace_id, automation_id, TRUE)

TestTenant == \E workspace_id \in Workspaces, automation_id \in 1..MaxRules :
    test_automation(workspace_id, automation_id, "r1", AllOk)

LogsTenant ==
    \E workspace_id \in Workspaces, automation_id \in 1..MaxRules, limit \in LogLimits :
        get_automation_logs(workspace_id, automation_id, limit, TRUE)

NextTenant ==
    CreateTenant \/ GetTenant \/ UpdateTenant \/ DeleteTenant \/ TestTenant \/ LogsTenant

SpecTenant == Init /\ [][NextTenant]_vars


----------------------------------------------------------------------------
(* Rules created, partially updated and deleted.                           *)

\* update requests: no field, one field, two fields
PartialUpdates ==
    {EmptyDict,
     [is_active |-> FALSE],
     [trigger_config |-> [to_status |-> "won"]],
     [name |-> "renamed", action_config |-> [url |-> "https://hook.example",
                                             method |-> "GET"]]}

CreatePartial == create_automation("w1", WebhookRule, TRUE)

UpdatePartial ==
    \E workspace_id \in Workspaces, automation_id \in 1..MaxRules,
       request \in PartialUpdates, db_ok \in BOOLEAN :
        update_automation(workspace_id, automation_id, request, db_ok)

DeletePartial == \E automation_id \in 1..MaxRules :
    delete_automation("w1", automation_id, TRUE)

NextUpdate == CreatePartial \/ UpdatePartial \/ DeletePartial

SpecUpdate == Init /\ [][NextUpdate]_vars

----------------------------------------------------------------------------
(* Properties of the condition evaluator (checked under SpecCond) *)

Evaluated == cond_out # Pending

ConfigIsDict == ~cond_in.trigger_config.is_none

\* the statuses and filters of the evaluated call, as the claims name them:
\* old_status is None when old_data is None
CondNewStatus == Get(cond_in.record_data, "status")
CondOldStatus == IF cond_in.old_data.is_none THEN None ELSE Get(cond_in.old_data.dict, "status")
CondTo == Get(cond_in.trigger_config.dict, "to_status")
CondFrom == Get(cond_in.trigger_config.dict, "from_status")
CondField == Get(cond_in.trigger_config.dict, "field_name")

StatusCall == Evaluated /\ cond_in.trigger_type = "status_changed" /\ ConfigIsDict
FieldCall == Evaluated /\ cond_in.trigger_type = "field_updated" /\ ConfigIsDict

\* C2 as stated: a status-change trigger fires iff the status changed, and
\* to_status is absent or equals the new status, and from_status is absent
\* or equals the old status.
C2_AsStated ==
    StatusCall =>
        cond_out = Returned(/\ CondOldStatus # CondNewStatus
                            /\ (CondTo = None \/ CondNewStatus = CondTo)
                            /\ (CondFrom = None \/ CondOldStatus = CondFrom))

\* C2 amended: a status-change trigger fires iff the status changed, and
\* to_status is absent or empty or equals the new status, and from_status is
\* absent or empty or equals the old status.
C2_StatusChangeIff ==
    StatusCall =>
        cond_out = Returned(/\ CondOldStatus # CondNewStatus
                            /\ (~Truthy(CondTo) \/ CondNewStatus = CondTo)
                            /\ (~Truthy(CondFrom) \/ CondOldStatus = CondFrom))

\* an empty to_status acted as no filter: new -> won fired
C2_Witness ==
    /\ StatusCall
    /\ CondTo = "" /\ CondFrom = None
    /\ CondOldStatus = "new" /\ CondNewStatus = "won"
    /\ cond_out = Returned(TRUE)

\* the rule from=new, to=qualified: new -> qualified fires, new -> won does not
C2_ExampleReached ==
    /\ StatusCall
    /\ CondFrom = "new" /\ CondTo = "qualified"
    /\ CondOldStatus = "new"
    /\ \/ CondNewStatus = "won" /\ cond_out = Returned(FALSE)
       \/ CondNewStatus = "qualified" /\ cond_out = Returned(TRUE)

\* C3: a status-change trigger never fires when old_data is None.
C3_NoOldDataNoFire ==
    (Evaluated /\ cond_in.trigger_type = "status_changed" /\ cond_in.old_data.is_none)
        => cond_out # Returned(TRUE)

\* C4: a field-updated trigger with a field_name fires iff old_data is present
\* (not None, whether or not it holds the field) and the field's value differs.
C4_FieldUpdatedIff ==
    (FieldCall /\ Truthy(CondField)) =>
        cond_out = Returned(IF cond_in.old_data.is_none THEN FALSE
                            ELSE Get(cond_in.old_data.dict, CondField)
                                    # Get(cond_in.record_data, CondField))

\* C5: a field-updated trigger without field_name fires on every update whose
\* old_data is present, whichever fields changed, also when none did.
C5_NoFieldNameFires ==
    (FieldCall /\ CondField = None /\ ~cond_in.old_data.is_none)
        => cond_out = Returned(TRUE)

\* an update that changed nothing still fires
C5_Witness ==
    /\ FieldCall /\ CondField = None
    /\ ~cond_in.old_data.is_none
    /\ cond_in.old_data.dict = cond_in.record_data
    /\ DictTruthy(cond_in.record_data)
    /\ cond_out = Returned(TRUE)

\* C6: record_created and record_deleted triggers fire for every record,
\* every old_data and every trigger_config.
C6_CreatedDeletedFire ==
    (Evaluated /\ cond_in.trigger_type \in {"record_created", "record_deleted"})
        => cond_out = Returned(TRUE)

\* record_deleted fired with a null config and no old_data
C6_Witness ==
    /\ Evaluated
    /\ cond_in.trigger_type = "record_deleted"
    /\ cond_in.trigger_config.is_none /\ cond_in.old_data.is_none
    /\ cond_out = Returned(TRUE)

\* record_created fired although the config names a status the record lacks
C6_CreatedReached ==
    /\ Evaluated
    /\ cond_in.trigger_type = "record_created"
    /\ ConfigIsDict /\ CondTo = "won" /\ CondNewStatus = "new"
    /\ cond_out = Returned(TRUE)

\* C7: every other trigger kind fires (permissive fallback), for every
\* record, old_data and trigger_config.
C7_UnknownKindFires ==
    (Evaluated /\ cond_in.trigger_type \notin TriggerTypes)
        => cond_out = Returned(TRUE)

C7_Witness ==
    /\ Evaluated
    /\ cond_in.trigger_type = UnknownTriggerType
    /\ cond_in.old_data.is_none
    /\ cond_out = Returned(TRUE)

----------------------------------------------------------------------------
(* Properties of the rule executor and the trigger dispatcher (Spec) *)

Dispatched == response.op = "trigger_automations"
Tested == response.op = "test_automation" /\ response.status # 404

\* number of matched rules among the first i the loop reached
MatchedUpTo(events, i) == Cardinality({j \in 1..i : events[j].matched})

SomeActionFailed == \E i \in 1..Len(response.events) : response.events[i].failed

\* C1: when the action of a matched rule fails in trigger_automations, that
\* rule yields a result with success=False, every later rule of the batch is
\* still evaluated and, if it matches, executed, and the call does not raise.
C1_FailureDoesNotAbort ==
    (Dispatched /\ SomeActionFailed) =>
        /\ ~response.raised
        /\ Len(response.events) = Len(response.loaded)
        /\ \A i \in 1..Len(response.events) :
              response.events[i].automation_id = response.loaded[i]
        /\ Len(response.results) = MatchedUpTo(response.events, Len(response.events))
        /\ \A i \in 1..Len(response.events) :
              response.events[i].matched =>
                  (response.results[MatchedUpTo(response.events, i)].success
                      = ~response.events[i].failed)

\* the webhook of the first rule answered 500, the second rule still ran
C1_Witness ==
    /\ Dispatched
    /\ Len(response.events) = 2
    /\ response.events[1].failed
    /\ response.results[1] = [success |-> FALSE, error |-> "HTTPStatusError 500"]
    /\ response.events[2].matched /\ ~response.events[2].failed
    /\ response.results[2].success

\* the required-field contract of an action_type, on a stored action_config
SatisfiesContract(action_type, config) ==
    LET has(k) == Get(config, k) # None
    IN  CASE action_type = "send_email" -> has("subject") /\ has("body")
          [] action_type = "webhook" ->
                has("url") /\ Get(config, "method") \in {"POST", "PUT", "PATCH"}
          [] action_type = "update_field" -> has("field_name") /\ has("new_value")
          [] action_type = "create_task" -> has("title") /\ has("description")
          [] OTHER -> FALSE

\* C8: after any sequence of create, update and delete requests every stored
\* rule's action_config satisfies the required-field contract of its
\* action_type.
C8_StoredRulesSatisfyContract ==
    \A i \in 1..Len(automation_rules) :
        SatisfiesContract(automation_rules[i].action_type, automation_rules[i].action_config)

ConfigurationErrors ==
    {"Webhook URL is required", "Field name is required"}
    \cup {"Unsupported HTTP method: " \o m : m \in {"GET", "None"}}

ExecutionErrors ==
    IF Dispatched
        THEN {response.results[i].error :
                 i \in {j \in 1..Len(response.results) : ~response.results[j].success}}
    ELSE IF Tested /\ response.status = 200 /\ ~response.test_result.success
        THEN {response.test_result.error}
    ELSE {}

\* C9: create_automation accepts (201, insert) only requests whose
\* action_config holds every field its action_type requires, and the rules it
\* accepted never fail in execute with a missing-configuration error.
C9_ConfigCheckedAtCreation ==
    /\ (response.op = "create_automation" /\ response.status = 201) =>
          SatisfiesContract(response.automation.action_type,
                            response.automation.action_config)
    /\ ExecutionErrors \cap ConfigurationErrors = {}

\* the log row execute writes for an envelope
EntryFor(automation_id, record_id, envelope) ==
    IF envelope.success
        THEN LogEntry(automation_id, record_id, "success", envelope.result)
        ELSE LogEntry(automation_id, record_id, "error", [error |-> envelope.error])

\* the rows a dispatch writes: one per matched rule, in order; with
\* only_if_log_ok, only those whose insert went through
RECURSIVE EntriesFor(_, _, _, _)
EntriesFor(events, results, record_id, only_if_log_ok) ==
    IF events = << >> THEN << >>
    ELSE LET e == Head(events)
         IN  IF ~e.matched
                THEN EntriesFor(Tail(events), results, record_id, only_if_log_ok)
             ELSE (IF only_if_log_ok /\ ~e.log_ok THEN << >>
                   ELSE << EntryFor(e.automation_id, record_id, Head(results)) >>)
                  \o EntriesFor(Tail(events), Tail(results), record_id, only_if_log_ok)

\* C10 as stated: every call to execute appends exactly one entry to the
\* log, for its rule and record, with status success iff the envelope has
\* success=True, and does not raise.
C10_AsStated ==
    [][ /\ (response'.op = "test_automation" /\ response'.status # 404) =>
              /\ response'.status = 200
              /\ automation_logs' = Append(automation_logs,
                      EntryFor(response'.automation_id, response'.record_id,
                               response'.test_result))
        /\ (response'.op = "trigger_automations" /\ ~response'.raised) =>
              automation_logs' = automation_logs \o
                  EntriesFor(response'.events, response'.results, response'.record_id, FALSE)
      ]_vars

\* C10 amended: every call to execute returns an envelope without raising
\* and appends exactly one entry when the log insert goes through (for its
\* rule and record, status success iff the envelope has success=True, else
\* error with the error text) and none when the insert fails.
C10_OneEntryPerLoggedExecute ==
    [][ /\ (response'.op = "test_automation" /\ response'.status # 404) =>
              /\ response'.status = 200
              /\ automation_logs' =
                    IF response'.log_ok
                        THEN Append(automation_logs,
                                EntryFor(response'.automation_id, response'.record_id,
                                         response'.test_result))
                        ELSE automation_logs
        /\ (response'.op = "trigger_automations" /\ ~response'.raised) =>
              automation_logs' = automation_logs \o
                  EntriesFor(response'.events, response'.results, response'.record_id, TRUE)
      ]_vars

\* execute ran twice for the same rule and record, failing both times: two
\* equal error entries
C10_Witness ==
    /\ Tested /\ response.status = 200
    /\ ~response.test_result.success
    /\ Len(automation_logs) = 2
    /\ automation_logs[1] = automation_logs[2]
    /\ automation_logs[2] = EntryFor(response.automation_id, response.record_id,
                                     response.test_result)

\* an execution whose log insert failed left no entry and still answered
C10_LogFailureReached ==
    /\ Tested /\ response.status = 200
    /\ response.test_result.success
    /\ ~response.log_ok
    /\ automation_logs = << >>

\* a dispatch that executed two rules wrote two entries
C10_BatchReached ==
    /\ Dispatched
    /\ Len(response.results) = 2
    /\ Len(automation_logs) = 2
    /\ automation_logs[1].status = "error" /\ automation_logs[2].status = "success"

----------------------------------------------------------------------------
(* Properties of the rule executor (SpecExec).  A step that answers a      *)
(* test_automation request with something else than 404 has called execute *)
(* once, for the rule and the record named in the response, on the store   *)
(* of the state before the step.                                           *)

ExecuteStep == response'.op = "test_automation" /\ response'.status # 404

ExecutedRule ==
    automation_rules[RuleIndex(automation_rules, response'.automation_id,
                               response'.workspace_id)]

ExecutedRecord ==
    [id |-> response'.record_id, data |-> records[response'.record_id].data]

\* what the action dispatcher did in this step, whatever became of the log
ExecutedAction == run_action(ExecutedRule, ExecutedRecord, response'.env, records)

\* the error row of this step's execution
ErrorEntry(error) ==
    LogEntry(response'.automation_id, response'.record_id, "error", [error |-> error])

\* one error row was handed to the log: it is appended when the insert goes
\* through, and nothing else is ever appended
LogsOneError(error) ==
    automation_logs' = IF response'.env.log_ok
                          THEN Append(automation_logs, ErrorEntry(error))
                          ELSE automation_logs

\* C11: when writing the log entry fails, execute raises nothing and returns
\* the envelope it would have returned had the write succeeded (success=True
\* with the action's result for a successful action, the original error for a
\* failed one), and no row, in particular no second error row, is written.
C11_LogFailureKeepsEnvelope ==
    [][ (ExecuteStep /\ ~response'.env.log_ok) =>
            /\ response'.status = 200
            /\ response'.test_result =
                  (IF ExecutedAction.ok
                      THEN [success |-> TRUE, action_type |-> ExecutedRule.action_type,
                            result |-> ExecutedAction.result]
                      ELSE [success |-> FALSE, error |-> ExecutedAction.error])
            /\ automation_logs' = automation_logs
            /\ records' = ExecutedAction.records
      ]_vars

\* an email went out, the log insert failed, the envelope still says success
C11_Witness ==
    /\ Tested /\ response.status = 200
    /\ ~response.env.log_ok
    /\ response.test_result.success
    /\ response.test_result.result = [email_sent |-> TRUE, recipient |-> "ann@example.com",
                                       subject |-> "Deal new", body_length |-> 5]
    /\ automation_logs = << >>

\* a failed action whose log insert failed too keeps its own error
C11_FailedActionReached ==
    /\ Tested /\ response.status = 200
    /\ ~response.env.log_ok
    /\ response.test_result = [success |-> FALSE, error |-> "No recipient email found"]
    /\ automation_logs = << >>

----------------------------------------------------------------------------
(* Properties of the trigger dispatcher.  A step that answers a            *)
(* trigger_automations call has loaded the rules from the rule table of    *)
(* the state before the step; response'.call holds the call's arguments.   *)

DispatchStep == response'.op = "trigger_automations"

\* the rows the call's select asks for, in table order
Eligible(rule, call) ==
    /\ rule.is_active
    /\ rule.workspace_id = call.workspace_id
    /\ rule.entity_id = call.entity_id
    /\ rule.trigger_type = call.trigger_type

EligibleRules(call) == SelectSeq(automation_rules, LAMBDA rule : Eligible(rule, call))

\* whether the rule's trigger condition holds for the call's event
ConditionMatches(rule, call) ==
    check_trigger_conditions(rule.trigger_config, call.record.data, call.old_data,
                             call.trigger_type) = Returned(TRUE)

MatchedRules(call) == SelectSeq(EligibleRules(call), LAMBDA rule : ConditionMatches(rule, call))

\* the ids of the rows appended to the log in this step
AppendedIds ==
    [k \in 1..(Len(automation_logs') - Len(automation_logs)) |->
        automation_logs'[Len(automation_logs) + k].automation_id]

LogOnlyGrows ==
    /\ Len(automation_logs') >= Len(automation_logs)
    /\ SubSeq(automation_logs', 1, Len(automation_logs)) = automation_logs

\* the envelope of a matched rule: success with the rule's action_type, or
\* a failure carrying an error
EnvelopeOf(rule, envelope, failed) ==
    IF failed THEN ~envelope.success /\ DOMAIN envelope = {"success", "error"}
    ELSE envelope.success /\ envelope.action_type = rule.action_type

\* C13: the list trigger_automations returns holds exactly one result for
\* each loaded rule whose trigger condition matched, in retrieval order,
\* failed executions included as success=False entries; a rule whose
\* condition did not match contributes no result and no log entry.
C13_OneResultPerMatchedRule ==
    [][ (DispatchStep /\ response'.load_ok /\ ~response'.raised) =>
            LET call == response'.call
                matched == MatchedRules(call)
                ran == SelectSeq(response'.events, LAMBDA e : e.matched)
            IN  /\ Len(response'.results) = Len(matched)
                /\ Len(ran) = Len(matched)
                /\ \A k \in 1..Len(matched) :
                      /\ ran[k].automation_id = matched[k].id
                      /\ EnvelopeOf(matched[k], response'.results[k], ran[k].failed)
                /\ LogOnlyGrows
                /\ AppendedIds =
                      [k \in 1..Len(SelectSeq(ran, LAMBDA e : e.log_ok)) |->
                          SelectSeq(ran, LAMBDA e : e.log_ok)[k].automation_id]
      ]_vars

\* two rules were loaded; the first matched and failed (webhook answered
\* 500), the second did not match: one result, one log row
C13_Witness ==
    /\ Dispatched /\ ~response.raised
    /\ response.loaded = << 1, 2 >>
    /\ response.call.record.data.status = "qualified"
    /\ response.events[1].matched /\ response.events[1].failed
    /\ ~response.events[2].matched
    /\ response.results = << [success |-> FALSE, error |-> "HTTPStatusError 500"] >>
    /\ Len(automation_logs) = 1 /\ automation_logs[1].automation_id = 1

\* both loaded rules matched: their results come in retrieval order
C13_OrderReached ==
    /\ Dispatched /\ ~response.raised
    /\ response.loaded = << 1, 2 >>
    /\ Len(response.results) = 2
    /\ response.results[1].success /\ response.results[1].action_type = "create_task"
    /\ response.results[2].success /\ response.results[2].action_type = "webhook"

EligibleIds(call) ==
    {automation_rules[i].id :
        i \in {j \in 1..Len(automation_rules) : Eligible(automation_rules[j], call)}}

\* C14: whatever rules were created, switched on or off and deleted before,
\* a trigger_automations call runs an action and writes a log row only for
\* rules that, when it loads them, are active and carry the event's
\* workspace_id, entity_id and trigger_type; when there is no such rule it
\* returns [] without running any action and without writing any log row.
C14_OnlyActiveMatchingRulesRun ==
    [][ DispatchStep =>
            LET call == response'.call
                ids == EligibleIds(call)
            IN  /\ \A k \in 1..Len(response'.events) :
                      response'.events[k].automation_id \in ids
                /\ LogOnlyGrows
                /\ \A k \in 1..Len(AppendedIds) : AppendedIds[k] \in ids
                /\ (ids = {} /\ response'.load_ok) =>
                      /\ ~response'.raised
                      /\ response'.results = << >>
                      /\ response'.events = << >>
                      /\ automation_logs' = automation_logs
                      /\ records' = records
      ]_vars

\* two record_created rules of the same entity, the first one inactive: the
\* event ran the second one only
C14_Witness ==
    /\ Dispatched /\ ~response.raised
    /\ response.call.trigger_type = "record_created"
    /\ Len(automation_rules) = 2
    /\ automation_rules[1].trigger_type = "record_created" /\ ~automation_rules[1].is_active
    /\ automation_rules[2].trigger_type = "record_created" /\ automation_rules[2].is_active
    /\ response.loaded = << 2 >>
    /\ Len(response.results) = 1 /\ response.results[1].success
    /\ Len(automation_logs) = 1 /\ automation_logs[1].automation_id = 2

\* the only rule for the event had been switched off: [] and an empty log
C14_DeactivatedReached ==
    /\ Dispatched /\ ~response.raised
    /\ response.call.trigger_type = "status_changed"
    /\ response.call.entity_id = "e1"
    /\ Len(automation_rules) = 1
    /\ automation_rules[1].trigger_type = "status_changed" /\ ~automation_rules[1].is_active
    /\ response.results = << >>
    /\ automation_logs = << >>

\* a rule of workspace w2 stayed out of a dispatch for workspace w1
C14_OtherWorkspaceReached ==
    /\ Dispatched /\ ~response.raised
    /\ response.call.workspace_id = "w1" /\ response.call.entity_id = "e2"
    /\ \E i \in 1..Len(automation_rules) :
          automation_rules[i].entity_id = "e2" /\ automation_rules[i].is_active
    /\ response.results = << >>

\* C15: trigger_automations raises only when loading the rule list fails (and
\* then no action has run and no log row was written); neither the evaluation
\* of a loaded rule's trigger condition, whatever its stored trigger_config,
\* nor the failure of a rule's action makes it raise.
C15_RaisesOnlyWhenLoadFails ==
    Dispatched =>
        /\ response.raised <=> ~response.load_ok
        /\ ~response.load_ok => (response.events = << >> /\ response.results = << >>)

----------------------------------------------------------------------------
(* Properties of the action dispatchers (SpecExec) *)

Present(v) == v # None /\ v # ""

\* C19: send_email succeeds iff a recipient can be resolved, the record's
\* data.email first and the config's to_email only when the record has no
\* non-empty email; with neither, the action fails with "No recipient email
\* found": nothing is handed off, execute returns success=False and logs an
\* error entry.
C19_SendEmailRecipient ==
    [][ (ExecuteStep /\ ExecutedRule.action_type = "send_email") =>
            LET email == Get(ExecutedRecord.data, "email")
                to_email == Get(ExecutedRule.action_config, "to_email")
                recipient == IF Present(email) THEN email ELSE to_email
                envelope == response'.test_result
            IN  /\ response'.status = 200
                /\ envelope.success <=> Present(recipient)
                /\ envelope.success =>
                      /\ envelope.result.email_sent
                      /\ envelope.result.recipient = recipient
                /\ ~envelope.success =>
                      /\ envelope = [success |-> FALSE, error |-> "No recipient email found"]
                      /\ LogsOneError("No recipient email found")
                /\ response'.http = 0
                /\ records' = records
      ]_vars

\* the record's email is empty, the config's to_email is used
C19_Witness ==
    /\ Tested /\ response.status = 200
    /\ automation_rules[1].action_type = "send_email"
    /\ records[response.record_id].data = [email |-> ""]
    /\ response.test_result.success
    /\ response.test_result.result.recipient = "ops@example.com"

\* the record's email wins over the config's to_email
C19_RecordFirstReached ==
    /\ Tested /\ response.status = 200
    /\ automation_rules[1].action_type = "send_email"
    /\ Get(automation_rules[1].action_config, "to_email") = "ops@example.com"
    /\ response.test_result.success
    /\ response.test_result.result.recipient = "ann@example.com"

\* neither is present: the failure and its error row
C19_NoRecipientReached ==
    /\ Tested /\ response.status = 200
    /\ automation_rules[1].action_type = "send_email"
    /\ Get(automation_rules[1].action_config, "to_email") = ""
    /\ response.test_result = [success |-> FALSE, error |-> "No recipient email found"]
    /\ automation_logs = << LogEntry(1, response.record_id, "error",
                                     [error |-> "No recipient email found"]) >>

C20_NoAnswerReached ==
    /\ Tested /\ response.status = 200
    /\ response.env.http = "error"
    /\ ~response.test_result.success
    /\ response.http = 1
    /\ Len(automation_logs) = 1 /\ automation_logs[1].status = "error"

\* an unsupported method: no request at all
C20_UnsupportedMethodReached ==
    /\ Tested /\ response.status = 200
    /\ response.test_result = [success |-> FALSE, error |-> "Unsupported HTTP method: GET"]
    /\ response.http = 0

----------------------------------------------------------------------------
(* Properties of the record API (SpecRecords) *)

RecordOps == {"create_record", "update_record", "delete_record",
              "delete_record_permanent", "bulk_update_records", "bulk_delete_records"}

\* the trigger kind that corresponds to a record mutation
TriggerOf(op) ==
    CASE op = "create_record" -> "record_created"
      [] op \in {"update_record", "bulk_update_records"} -> "field_updated"
      [] OTHER -> "record_deleted"

\* a step of the record API that committed a change to table crm_records
RecordMutation(op) ==
    /\ response'.op = op
    /\ response'.status = 200
    /\ crm_records' # crm_records

\* the records a committed step touched
Touched ==
    {r \in (DOMAIN crm_records) \cup (DOMAIN crm_records') :
        \/ r \notin DOMAIN crm_records
        \/ r \notin DOMAIN crm_records'
        \/ crm_records'[r] # crm_records[r]}

\* the active rules of the mutated entity for the trigger kind of the step
RulesToRun(op) ==
    LoadAutomations(automation_rules, response'.workspace_id, response'.entity_id,
                    TriggerOf(op))

\* C16: every committed record mutation made through the record API is
\* followed, within the handler, by the trigger dispatcher's run for that
\* record with the corresponding trigger kind: each active rule of the entity
\* for that trigger is executed for each touched record, which leaves one
\* execution log row per rule and record (while the log has room).
C16_MutationIsDispatched ==
    [][\A op \in RecordOps :
          (/\ RecordMutation(op)
           /\ Len(automation_logs) + Len(RulesToRun(op)) * Cardinality(Touched) <= MaxLogs)
          => \A k \in 1..Len(RulesToRun(op)) : \A r \in Touched :
                \E j \in (Len(automation_logs) + 1)..Len(automation_logs') :
                    /\ automation_logs'[j].automation_id = RulesToRun(op)[k].id
                    /\ automation_logs'[j].record_id = r]_vars

\* a record was created on an entity that holds an active record_created rule
C16_CreatedUnderRuleReached ==
    /\ response.op = "create_record" /\ response.status = 200
    /\ LoadAutomations(automation_rules, "w1", "e1", "record_created") # << >>
    /\ automation_logs = << >>

----------------------------------------------------------------------------
(* Properties of the access control of the rule API (SpecAuth) *)

\* the callers whose token names a user, with that user
CallerUsers ==
    LET token(caller) == SubSeq(caller.authorization, 8, Len(caller.authorization))
        named == {caller \in AuthCallers : /\ caller.auth_up
                                           /\ caller.authorization # None
                                           /\ StartsWith(caller.authorization, "Bearer ")
                                           /\ token(caller) \in DOMAIN AuthUsers}
    IN  [caller \in named |-> AuthUsers[token(caller)]]

Identified(caller) == caller \in DOMAIN CallerUsers

UserOf(caller) == CallerUsers[caller]

ActiveWorkspace(workspace_id) ==
    workspace_id \in DOMAIN workspaces /\ workspaces[workspace_id].is_active

\* the caller is a member of the workspace with role admin or owner
AdminOrOwner(caller, workspace_id) ==
    /\ Identified(caller)
    /\ \E m \in workspace_members : /\ m.workspace_id = workspace_id
                                    /\ m.user_id = UserOf(caller)
                                    /\ m.role \in {"admin", "owner"}

\* a step of one of the four admin routes made by this caller
RuleRouteStep(caller, workspace_id) ==
    \/ response'.op = "create_automation" /\ CreateAuth(caller, workspace_id)
    \/ response'.op = "update_automation" /\ UpdateAuth(caller, workspace_id)
    \/ response'.op = "delete_automation" /\ DeleteAuth(caller, workspace_id)
    \/ response'.op = "test_automation" /\ TestAuth(caller, workspace_id)

\* rule rows the step changed, added or removed
TouchedRules ==
    {r \in {automation_rules[i] : i \in 1..Len(automation_rules)}
           \cup {automation_rules'[i] : i \in 1..Len(automation_rules')} :
        \/ \A i \in 1..Len(automation_rules) : automation_rules[i] # r
        \/ \A i \in 1..Len(automation_rules') : automation_rules'[i] # r}

\* C17: a create, update, delete or test request for a rule made by a caller
\* who is not a member with role admin or owner of the active workspace in the
\* path leaves the rule store, the records and the execution log unchanged;
\* when the caller is identified, the workspace exists and is active and the
\* access lookups answer, the refusal is a 403.  A request that is let in
\* touches only rules of the workspace in its path.
C17_RuleRoutesAdminOnly ==
    [][\A caller \in AuthCallers, workspace_id \in PathWorkspaces :
          \/ IF AdminOrOwner(caller, workspace_id) /\ ActiveWorkspace(workspace_id)
             THEN \A r \in TouchedRules : r.workspace_id = workspace_id
             ELSE /\ UNCHANGED <<automation_rules, automation_logs, records, next_id>>
                  /\ response'.status \in {401, 403, 404, 500}
                  /\ (Identified(caller) /\ ActiveWorkspace(workspace_id)
                      /\ caller.access_ok) => response'.status = 403
          \/ ~RuleRouteStep(caller, workspace_id)]_vars

\* a plain member was refused while the workspace holds a rule
C17_Witness ==
    /\ response.op \in {"update_automation", "delete_automation", "test_automation"}
    /\ response.status = 403
    /\ response.detail = "Insufficient permissions. admin role required."
    /\ automation_rules # << >>

\* a caller without membership was refused
C17_NonMemberReached ==
    /\ response.op = "create_automation"
    /\ response.status = 403
    /\ response.detail = "You don't have access to this workspace"

----------------------------------------------------------------------------
(* Properties of get_current_user (SpecSession) *)

\* the callers get_current_user has to turn away: no header, a header that
\* does not start with "Bearer ", nothing but blanks after it, a token the
\* auth service does not know, or an auth service that fails
TurnedAway ==
    {caller \in SessionCallers :
        \/ caller.authorization = None
        \/ caller.authorization = ""
        \/ ~StartsWith(caller.authorization, "Bearer ")
        \/ Strip(Replace(caller.authorization, "Bearer ", "")) \notin DOMAIN AuthUsers
        \/ ~caller.auth_up}

\* a step of one of the two workspace endpoints made by this caller
SessionStep(caller) ==
    \/ response'.op = "list_user_workspaces" /\ ListSession(caller)
    \/ response'.op = "create_workspace_manual" /\ CreateSession(caller)

\* C18: a request to list or create workspaces whose Authorization header is
\* missing, does not start with "Bearer ", holds an empty token, or holds a
\* token the auth service rejects or fails on, is answered 401 by
\* get_current_user and the handler does not run: the answer carries no
\* workspace data and no table is written.
C18_Unauthenticated401 ==
    [][\A caller \in TurnedAway :
          \/ /\ response'.status = 401
             /\ DOMAIN response' = {"op", "status", "detail"}
             /\ UNCHANGED <<workspaces, workspace_members, automation_rules,
                            automation_logs, records, crm_records>>
          \/ ~SessionStep(caller)]_vars

\* a create request with another scheme's header was turned away after
\* somebody else had created a workspace
C18_Witness ==
    /\ response.op = "create_workspace_manual"
    /\ response.status = 401
    /\ response.detail = "Invalid authentication credentials. Use Bearer token."
    /\ "w4" \in DOMAIN workspaces

\* a list request was turned away for its empty token
C18_EmptyTokenReached ==
    /\ response.op = "list_user_workspaces"
    /\ response.status = 401
    /\ response.detail = "Empty bearer token"

\* a list request was turned away because the auth service knows no such token
C18_RejectedTokenReached ==
    /\ response.op = "list_user_workspaces"
    /\ response.status = 401
    /\ response.detail = "Invalid or expired token"

\* a request was turned away because the auth service failed
C18_AuthServiceDownReached ==
    /\ response.op = "create_workspace_manual"
    /\ response.status = 401
    /\ response.detail = "Authentication failed. Please login again."

\* a request without header was turned away
C18_NoHeaderReached ==
    /\ response.op = "create_workspace_manual"
    /\ response.status = 401
    /\ response.detail = "Not authenticated. Authorization header required."

----------------------------------------------------------------------------
(* Properties of the update_field action (SpecExec) *)

\* C21: a successful update_field execution on a record passed as it is
\* stored persists, for that record only, its data with field_name set to
\* new_value (rendered as a template when it is a string), every other key
\* and every other record unchanged; when field_name is missing or empty the
\* action fails with "Field name is required" and the record store is
\* untouched.
C21_UpdateFieldWrite ==
    [][ (ExecuteStep /\ ExecutedRule.action_type = "update_field") =>
            LET config == ExecutedRule.action_config
                field_name == Get(config, "field_name")
                raw_value == Get(config, "new_value")
                id == response'.record_id
            IN  IF ~Truthy(field_name)
                THEN /\ response'.test_result =
                            [success |-> FALSE, error |-> "Field name is required"]
                     /\ records' = records
                ELSE response'.test_result.success =>
                        /\ DOMAIN records' = DOMAIN records
                        /\ \A r \in DOMAIN records \ {id} : records'[r] = records[r]
                        /\ records'[id].entity_id = records[id].entity_id
                        /\ DOMAIN records'[id].data =
                               (DOMAIN records[id].data) \cup {field_name}
                        /\ records'[id].data[field_name] =
                               (IF raw_value = None THEN None
                                ELSE _replace_template_variables(raw_value, ExecutedRecord))
                        /\ \A k \in DOMAIN records[id].data \ {field_name} :
                               records'[id].data[k] = records[id].data[k]
      ]_vars

\* the templated value was rendered from r2's data and merged into it
C21_Witness ==
    /\ Tested /\ response.status = 200
    /\ response.record_id = "r2"
    /\ response.test_result.success
    /\ automation_rules[1].action_config = [field_name |-> "priority",
                                            new_value |-> "Deal {{status}}"]
    /\ records = [ExecRecords EXCEPT !["r2"].data =
                      [status |-> "new", email |-> "ann@example.com",
                       priority |-> "Deal new"]]

\* a rule without field_name failed and wrote nothing
C21_NoFieldNameReached ==
    /\ Tested /\ response.status = 200
    /\ automation_rules[1].action_config = [new_value |-> "high"]
    /\ response.test_result = [success |-> FALSE, error |-> "Field name is required"]
    /\ records = ExecRecords

----------------------------------------------------------------------------
(* Properties of the engine's writes (SpecField) *)

\* a step of the engine: a dispatcher call or a direct execution
EngineStep == response'.op \in {"trigger_automations", "test_automation"}

\* the envelopes the step's executions returned
StepEnvelopes ==
    IF response'.op = "trigger_automations" THEN response'.results
    ELSE IF response'.status = 200 THEN << response'.test_result >>
    ELSE << >>

\* one of the step's executions was a successful update_field
UpdateFieldSucceeded ==
    \E i \in 1..Len(StepEnvelopes) : /\ StepEnvelopes[i].success
                                     /\ StepEnvelopes[i].action_type = "update_field"

\* C22: whatever the engine does (trigger_automations, test_automation's
\* direct execute, the four actions), the rule store is left as it is, no
\* record is added or removed, and a record's row changes only if it is the
\* record the step was run for and one of the step's executions was a
\* successful update_field: send_email, webhook, create_task, unmatched
\* rules and failed executions write nothing.
C22_OnlyUpdateFieldWrites ==
    [][ EngineStep =>
            /\ automation_rules' = automation_rules
            /\ next_id' = next_id
            /\ DOMAIN records' = DOMAIN records
            /\ \A r \in DOMAIN records :
                   records'[r] # records[r] =>
                       /\ r = response'.record_id
                       /\ UpdateFieldSucceeded
                       /\ records'[r].entity_id = records[r].entity_id
      ]_vars

\* a dispatch ran a webhook and a failing update_field: nothing was written
C22_Witness ==
    /\ Dispatched
    /\ Len(response.results) = 2
    /\ \E i \in 1..2 : /\ response.results[i].success
                        /\ response.results[i].action_type = "webhook"
    /\ \E i \in 1..2 : response.results[i] =
                            [success |-> FALSE, error |-> "records update failed"]
    /\ records = InitRecords

\* a create_task rule was run directly: nothing was written
C22_TaskReached ==
    /\ Tested /\ response.status = 200
    /\ response.test_result.success
    /\ response.test_result.action_type = "create_task"
    /\ records = InitRecords

\* a dispatch met only a rule whose condition did not match
C22_UnmatchedReached ==
    /\ Dispatched
    /\ response.loaded # << >>
    /\ response.results = << >>
    /\ records = InitRecords

\* a successful update_field changed r1 and nothing else
C22_WriteReached ==
    /\ Dispatched
    /\ records = [InitRecords EXCEPT !["r1"].data = [status |-> "new", priority |-> "high"]]


----------------------------------------------------------------------------
(* Properties of the execution log (SpecLog) *)

\* C23: the execution log is append-only: whatever the request (a dispatch,
\* a direct execution, the creation, update or deletion of a rule), the log
\* after the step begins with the whole log before it, entry for entry, so
\* an entry once written is never modified or removed
C23_LogAppendOnly == [][LogOnlyGrows]_vars

\* a rule has been deleted and the entries its executions wrote are still in
\* the log
C23_Witness ==
    /\ response.op = "delete_automation"
    /\ response.status = 200
    /\ \E k \in 1..Len(automation_logs) :
          \A i \in 1..Len(automation_rules) :
             automation_rules[i].id # automation_logs[k].automation_id

\* the log holds an entry written by a dispatch after one written by a
\* direct execution of a rule that was switched off
C23_GrownReached ==
    /\ Len(automation_logs) >= 2
    /\ response.op = "trigger_automations"
    /\ \E i \in 1..Len(automation_rules) : ~automation_rules[i].is_active


----------------------------------------------------------------------------
(* Properties of the direct execution of a rule (Spec).  A test_automation *)
(* request names a rule id and a record id under workspace w1.             *)

\* the rule and the record the request names are found: the rule is a row of
\* the workspace, the record a row of the rule's entity
TestTargetFound(automation_id, record_id) ==
    LET i == RuleIndex(automation_rules, automation_id, "w1")
    IN  /\ i # 0
        /\ record_id \in DOMAIN records
        /\ records[record_id].entity_id = automation_rules[i].entity_id

\* the rule's trigger condition, evaluated on the record as the dispatcher
\* would for an event without old data
TriggerHolds(automation_id, record_id) ==
    LET automation == automation_rules[RuleIndex(automation_rules, automation_id, "w1")]
        cond == check_trigger_conditions(automation.trigger_config, records[record_id].data,
                                         NoneDict, automation.trigger_type)
    IN  ~cond.raised /\ cond.value

\* what a test_automation request leaves behind
TestOutcome(automation_id, record_id, env) ==
    IF TestTargetFound(automation_id, record_id)
    THEN /\ response'.status = 200
         /\ response'.test_result.success
            = run_action(automation_rules[RuleIndex(automation_rules, automation_id, "w1")],
                         [id |-> record_id, data |-> records[record_id].data],
                         env, records).ok
         /\ IF env.log_ok
            THEN /\ Len(automation_logs') = Len(automation_logs) + 1
                 /\ SubSeq(automation_logs', 1, Len(automation_logs)) = automation_logs
                 /\ automation_logs'[Len(automation_logs')].automation_id = automation_id
                 /\ automation_logs'[Len(automation_logs')].record_id = record_id
            ELSE automation_logs' = automation_logs
    ELSE /\ response' = [op |-> "test_automation", status |-> 404]
         /\ UNCHANGED <<automation_rules, automation_logs, records>>

\* C24: test_automation runs the rule's action on the given record by
\* calling execute directly, whether or not the rule's trigger condition
\* holds for the record: the action's outcome is returned and its log row
\* written; when the rule is not a rule of the workspace or the record is
\* not a record of the rule's entity the answer is 404 and nothing is
\* executed or logged
C24_TestBypassesTrigger ==
    [][\A automation_id \in 1..MaxRules, record_id \in DOMAIN records, env \in Envs :
          test_automation("w1", automation_id, record_id, env)
              => TestOutcome(automation_id, record_id, env)]_vars

\* the last request ran a rule directly on a record its trigger condition
\* does not hold for, and the execution's row is the last of the log
C24_Witness ==
    /\ response.op = "test_automation"
    /\ response.status = 200
    /\ response.test_result.success
    /\ ~TriggerHolds(response.automation_id, response.record_id)
    /\ automation_logs # << >>
    /\ automation_logs[Len(automation_logs)].automation_id = response.automation_id
    /\ automation_logs[Len(automation_logs)].record_id = response.record_id

\* a direct execution was refused with 404 while rules and log rows exist
C24_NotFoundReached ==
    /\ response.op = "test_automation"
    /\ response.status = 404
    /\ automation_rules # << >>
    /\ automation_logs # << >>


----------------------------------------------------------------------------
(* Properties of template rendering (SpecRender) *)

\* the value the record's lookup holds for a name: the record's own id and
\* created_at, the data's value for every other name; None when there is none
LookupValue(record, name) ==
    IF name \in {"id", "created_at"} THEN Get(record, name) ELSE Get(record.data, name)

\* the pieces with every token replaced by its value, "" for no value
RECURSIVE Substituted(_, _)
Substituted(pieces, record) ==
    IF pieces = << >> THEN ""
    ELSE (IF "lit" \in DOMAIN Head(pieces) THEN Head(pieces).lit
          ELSE IF LookupValue(record, Head(pieces).var) = None THEN ""
          ELSE LookupValue(record, Head(pieces).var))
         \o Substituted(Tail(pieces), record)

NoToken(pieces) == \A i \in DOMAIN pieces : "lit" \in DOMAIN pieces[i]

\* C25: rendering returns the template with every {{name}} token replaced
\* by the value the record's lookup holds for the name, by the empty string
\* when the lookup holds no value or a null value for it, and with all text
\* outside the tokens as it was; a template without a token comes back
\* unchanged, and rendering always returns a string
C25_RenderSubstitutes ==
    cond_out # Pending =>
        /\ cond_out = Returned(Substituted(cond_in.pieces, cond_in.record))
        /\ NoToken(cond_in.pieces) => cond_out = Returned(cond_in.template)

\* "Hello {{full_name}}" rendered for a record whose full_name is "Ann"
C25_Witness ==
    /\ cond_in.template = "Hello {{full_name}}"
    /\ Get(cond_in.record.data, "full_name") = "Ann"
    /\ cond_out = Returned("Hello Ann")

\* "{{missing}}" rendered as the empty string
C25_MissingReached ==
    /\ cond_in.template = "{{missing}}"
    /\ cond_out = Returned("")

\* a token whose value is null rendered as the empty string between two texts
C25_NullReached ==
    /\ cond_in.template = "Hello {{full_name}}!"
    /\ "full_name" \in DOMAIN cond_in.record.data
    /\ cond_in.record.data.full_name = None
    /\ cond_out = Returned("Hello !")

\* braces that form no token came back as they were
C25_BrokenReached ==
    /\ cond_in.template = "Hello {{full_name}"
    /\ cond_out = Returned("Hello {{full_name}")


----------------------------------------------------------------------------
(* Properties of member management (SpecMembers) *)

OwnerRows == {m \in workspace_members : m.role = "owner"}

\* the caller passes the route's access dependency
Admitted(user, workspace_id, required_role) ==
    check_workspace_access(workspace_id, user.id, required_role, TRUE).status = 200

\* C26: the owner membership of a workspace is never changed or removed by
\* member management: whatever the request, the owner rows after it are the
\* owner rows before it (none removed, none altered, no second owner); an
\* update_member_role or remove_member_from_workspace request that reaches
\* the handler with the owner as its target is answered 400 and leaves table
\* workspace_members as it is; and a row is only ever written with role
\* admin or member
C26_OwnerMembershipKept ==
    [][ /\ OwnerRows' = OwnerRows
        /\ \A m \in workspace_members' \ workspace_members : m.role \in {"admin", "member"}
        /\ response'.op = "update_member_role" =>
              \A m \in OwnerRows, user \in MemberCallers, role \in AssignableRoles :
                  ( /\ Admitted(user, m.workspace_id, "owner")
                    /\ route_update_member_role(user, m.workspace_id, m.user_id,
                                                [role |-> role], TRUE) )
                  => (response'.status = 400 /\ UNCHANGED workspace_members)
        /\ response'.op = "remove_member_from_workspace" =>
              \A m \in OwnerRows, user \in MemberCallers :
                  ( /\ Admitted(user, m.workspace_id, "admin")
                    /\ route_remove_member_from_workspace(user, m.workspace_id,
                                                          m.user_id, TRUE) )
                  => (response'.status = 400 /\ UNCHANGED workspace_members)
      ]_vars

\* an admin asked to remove the owner and was refused with 400, after the
\* membership table had been changed by earlier requests
C26_Witness ==
    /\ response.op = "remove_member_from_workspace"
    /\ response.status = 400
    /\ workspace_members # InitMembers
    /\ OwnerRows = {m \in InitMembers : m.role = "owner"}

\* the owner asked to change their own role and was refused with 400
C26_OwnerUpdateRefusedReached ==
    /\ response.op = "update_member_role"
    /\ response.status = 400

\* a user was added, promoted to admin and the former admin removed
C26_ChangedReached ==
    /\ [workspace_id |-> "w1", user_id |-> "u_outsider", role |-> "admin"] \in workspace_members
    /\ \A m \in workspace_members : ~(m.workspace_id = "w1" /\ m.user_id = "u_admin")

\* a request for the role owner was turned away by the request model
C26_OwnerRoleRequestedReached ==
    /\ response.op \in {"invite_member_to_workspace", "update_member_role"}
    /\ response.status = 422


----------------------------------------------------------------------------
(* Properties of several update_field rules in one dispatch (SpecField) *)

\* the successful update_field envelopes among the results of a dispatch
FieldUpdates(results) ==
    {i \in 1..Len(results) : /\ results[i].success
                             /\ results[i].action_type = "update_field"}

\* C28: after one trigger_automations call in which two matched
\* update_field rules for different fields of the record both succeed, the
\* stored data of the record holds both new values
C28_BothUpdatesPersist ==
    [][ response'.op = "trigger_automations" =>
            \A i, j \in FieldUpdates(response'.results) :
                response'.results[i].result.field_name
                    # response'.results[j].result.field_name
                => /\ Get(records'[response'.record_id].data,
                          response'.results[i].result.field_name)
                      = response'.results[i].result.new_value
                   /\ Get(records'[response'.record_id].data,
                          response'.results[j].result.field_name)
                      = response'.results[j].result.new_value
      ]_vars

\* one dispatch ran the rules setting priority and stage, both reported
\* success, and the stored record holds the new stage with the old priority
C28_FirstUpdateLostReached ==
    /\ Dispatched
    /\ Cardinality(FieldUpdates(response.results)) = 2
    /\ \E i \in FieldUpdates(response.results) :
          /\ response.results[i].result.field_name = "priority"
          /\ response.results[i].result.new_value = "high"
    /\ records[response.record_id].data = [status |-> "new", priority |-> "low",
                                           stage |-> "closing"]


----------------------------------------------------------------------------
(* Properties of interleaved update_field executions (SpecRace) *)

\* process p ran trigger_automations in this step
DispatchedBy(p) == in_flight[p] # Idle /\ in_flight'[p] = Idle

\* the last of the successful update_field envelopes of the step
LastFieldUpdate ==
    response'.results[CHOOSE i \in FieldUpdates(response'.results) :
                          \A j \in FieldUpdates(response'.results) : j <= i].result

\* C27: when update_field executions on one record interleave, each works
\* on the record its own event holds and writes the whole data payload: after
\* a dispatch with a successful update_field the stored data is the payload
\* of that write, the held record's data with the field set, whatever another
\* process wrote in between (last write wins, the earlier write's field can
\* be lost); besides the data of that record only the execution log changes
C27_LastWriteWins ==
    [][ \A p \in Processes :
            DispatchedBy(p) =>
                /\ automation_rules' = automation_rules
                /\ next_id' = next_id
                /\ UNCHANGED <<crm_records, workspaces, workspace_members>>
                /\ LogOnlyGrows
                /\ DOMAIN records' = DOMAIN records
                /\ \A r \in DOMAIN records :
                       /\ records'[r].entity_id = records[r].entity_id
                       /\ r # in_flight[p].record.id => records'[r] = records[r]
                /\ IF FieldUpdates(response'.results) = {}
                   THEN records' = records
                   ELSE records'[in_flight[p].record.id].data
                          = DictSet(in_flight[p].record.data, LastFieldUpdate.field_name,
                                    LastFieldUpdate.new_value)
      ]_vars

\* two dispatches of one rule each, both successful: the first set priority
\* to high, the second ran on a record read before that write and set stage;
\* the stored data holds the stage and the old priority
C27_Witness ==
    /\ Dispatched
    /\ \A p \in Processes : in_flight[p] = Idle
    /\ Len(response.loaded) = 1
    /\ Len(automation_logs) = 2
    /\ automation_logs[1].status = "success"
    /\ automation_logs[1].record_id = "r1"
    /\ automation_logs[1].result.field_name = "priority"
    /\ automation_logs[1].result.new_value = "high"
    /\ automation_logs[2].status = "success"
    /\ automation_logs[2].result.field_name = "stage"
    /\ response.call.record.data = [status |-> "new", priority |-> "low"]
    /\ records["r1"].data = [status |-> "new", priority |-> "low", stage |-> "closing"]

\* the same two dispatches one after the other: both fields are kept
C27_SequentialReached ==
    /\ Dispatched
    /\ Len(response.loaded) = 1
    /\ Len(automation_logs) = 2
    /\ response.call.record.data = [status |-> "new", priority |-> "high"]
    /\ records["r1"].data = [status |-> "new", priority |-> "high", stage |-> "closing"]


----------------------------------------------------------------------------
(* Properties of tenant scoping (SpecTenant) *)

\* the rule exists and belongs to another workspace than the one asked under
Foreign(workspace_id, automation_id) ==
    \E i \in 1..Len(automation_rules) : /\ automation_rules[i].id = automation_id
                                        /\ automation_rules[i].workspace_id # workspace_id

\* the answer is this status and rules, log and records are as they were
Answered(status) ==
    /\ response'.status = status
    /\ UNCHANGED <<automation_rules, automation_logs, records>>

\* every rule is a rule for an entity of its own workspace
OwnEntities(rules) ==
    \A i \in 1..Len(rules) : /\ rules[i].entity_id \in DOMAIN entities
                             /\ entities[rules[i].entity_id] = rules[i].workspace_id

\* get, delete, test and log-listing requests for a rule of another workspace
\* answer 404 and change nothing; a rule is only created for an entity of
\* the request's workspace
ForeignReadDeleteTest ==
    /\ response'.op = "get_automation" =>
          \A workspace_id \in Workspaces, automation_id \in 1..MaxRules :
              ( /\ Foreign(workspace_id, automation_id)
                /\ get_automation(workspace_id, automation_id, TRUE) ) => Answered(404)
    /\ response'.op = "delete_automation" =>
          \A workspace_id \in Workspaces, automation_id \in 1..MaxRules :
              ( /\ Foreign(workspace_id, automation_id)
                /\ delete_automation(workspace_id, automation_id, TRUE) ) => Answered(404)
    /\ response'.op = "test_automation" =>
          \A workspace_id \in Workspaces, automation_id \in 1..MaxRules :
              ( /\ Foreign(workspace_id, automation_id)
                /\ test_automation(workspace_id, automation_id, "r1", AllOk) )
              => Answered(404)
    /\ response'.op = "get_automation_logs" =>
          \A workspace_id \in Workspaces, automation_id \in 1..MaxRules, limit \in LogLimits :
              ( /\ Foreign(workspace_id, automation_id)
                /\ get_automation_logs(workspace_id, automation_id, limit, TRUE) )
              => Answered(404)
    /\ OwnEntities(automation_rules')

\* C29 as stated: every get, update, delete, test or log-listing request
\* under workspace W for a rule of another workspace answers 404 and leaves
\* rules, log and records unchanged, and rules are created for entities of
\* their own workspace only
C29_AsStated ==
    [][ /\ ForeignReadDeleteTest
        /\ response'.op = "update_automation" =>
              \A workspace_id \in Workspaces, automation_id \in 1..MaxRules,
                 request \in TenantUpdates :
                  ( /\ Foreign(workspace_id, automation_id)
                    /\ update_automation(workspace_id, automation_id, request, TRUE) )
                  => Answered(404)
      ]_vars

\* C29 (amended): automation rules are tenant-scoped: a get, update, delete,
\* test or log-listing request under workspace W for a rule of another
\* workspace leaves that rule, the log and all records unchanged and answers
\* 404, except that an update request supplying no field is answered 400
\* (it is refused before the rule is looked up); and create_automation
\* stores a rule only when its entity_id is an entity of workspace W, so
\* every rule created through the API has an entity of its own workspace
C29_TenantScoped ==
    [][ /\ ForeignReadDeleteTest
        /\ response'.op = "update_automation" =>
              \A workspace_id \in Workspaces, automation_id \in 1..MaxRules,
                 request \in TenantUpdates :
                  ( /\ Foreign(workspace_id, automation_id)
                    /\ update_automation(workspace_id, automation_id, request, TRUE) )
                  => Answered(IF request = EmptyDict THEN 400 ELSE 404)
      ]_vars

\* both rule ids exist, one rule in each workspace, the rules have been run,
\* and a delete request was answered 404: it named the other workspace's rule
C29_Witness ==
    /\ response.op = "delete_automation"
    /\ response.status = 404
    /\ Len(automation_rules) = MaxRules
    /\ \A id \in 1..MaxRules : \E i \in 1..Len(automation_rules) : automation_rules[i].id = id
    /\ \E i, j \in 1..Len(automation_rules) :
          automation_rules[i].workspace_id # automation_rules[j].workspace_id
    /\ automation_logs # << >>

\* an update request without fields was answered 400 while rules exist
C29_EmptyUpdateReached ==
    /\ response.op = "update_automation"
    /\ response.status = 400
    /\ automation_rules # << >>

\* a create request for an entity of another workspace was answered 404
C29_ForeignEntityReached ==
    /\ response.op = "create_automation"
    /\ response.status = 404


----------------------------------------------------------------------------
(* Properties of the partial update (SpecUpdate) *)

UpdatableFields == {"name", "is_active", "trigger_config", "action_config"}

FixedFields == {"workspace_id", "entity_id", "trigger_type", "action_type"}

\* a rule that is stored before and after the step has its fixed fields
FixedFieldsKept ==
    \A i \in 1..Len(automation_rules), j \in 1..Len(automation_rules') :
        automation_rules[i].id = automation_rules'[j].id =>
            \A f \in FixedFields : automation_rules'[j][f] = automation_rules[i][f]

\* the update touched no other row and no field the request leaves out, and
\* refused a request without fields
UpdatedOnly(workspace_id, automation_id, request) ==
    /\ Len(automation_rules') = Len(automation_rules)
    /\ \A i \in 1..Len(automation_rules) :
          \A f \in DOMAIN automation_rules[i] :
              ( \/ f \notin DOMAIN request
                \/ automation_rules[i].id # automation_id
                \/ automation_rules[i].workspace_id # workspace_id )
              => automation_rules'[i][f] = automation_rules[i][f]
    /\ DOMAIN request \subseteq UpdatableFields
    /\ DOMAIN request = {} => /\ response'.status = 400
                              /\ UNCHANGED automation_rules

\* C30: update_automation changes only the fields supplied among name,
\* is_active, trigger_config and action_config: workspace_id, entity_id,
\* trigger_type and action_type of a stored rule never change, fields not
\* supplied keep their value, and a request supplying none of the four is
\* answered 400 and leaves the rules unchanged
C30_UpdateChangesSuppliedOnly ==
    [][ /\ FixedFieldsKept
        /\ response'.op = "update_automation" =>
              \A workspace_id \in Workspaces, automation_id \in 1..MaxRules,
                 request \in PartialUpdates, db_ok \in BOOLEAN :
                  update_automation(workspace_id, automation_id, request, db_ok)
                  => UpdatedOnly(workspace_id, automation_id, request)
      ]_vars

\* an update that supplied name and action_config was answered 200 for a
\* rule whose is_active an earlier update had set to FALSE and whose
\* trigger_config an earlier update had set: both kept
C30_Witness ==
    /\ response.op = "update_automation"
    /\ response.status = 200
    /\ response.automation.name = "renamed"
    /\ response.automation.is_active = FALSE
    /\ response.automation.trigger_config = SomeDict([to_status |-> "won"])
    /\ \E i \in 1..Len(automation_rules) : automation_rules[i] = response.automation

\* an update without fields was refused with 400 while a rule is stored
C30_EmptyRefusedReached ==
    /\ response.op = "update_automation"
    /\ response.status = 400
    /\ automation_rules # << >>

====
